---- MODULE Spec2Model ----
(***************************************************************************)
(* Model of the Xero report transformation pipeline                        *)
(* (app/xero/datasets/*.py) and of its callers.                            *)
(*                                                                         *)
(* Strings are sequences of tokens.  A token is a chunk of characters of   *)
(* one class: a word (letters), a run of digits, one whitespace character  *)
(* or one punctuation character.  Adjacent tokens are adjacent in the      *)
(* text, so prefix, substring and equality tests of the code are tests on  *)
(* token sequences.  pandas is modelled with the 2.x semantics the code    *)
(* was written for (astype(str) turns NaN into 'nan', Timestamp built from *)
(* a datetime has microsecond resolution and covers years 1..9999).        *)
(***************************************************************************)
EXTENDS Integers, Sequences, FiniteSets, TLC

VARIABLES
    report,            \* the transformer under call
    drop_profit_rows,  \* its drop_profit_rows argument
    columns,           \* the headers of the sheet's value columns
    grid,              \* the sheet's rows below the header row (read_excel)
    out,               \* melt_to_long -> what the call with that flag returned
    fn,       \* the parser under call: "parse_period_to_date", "parse_report_period" or "none"
    arg,      \* its argument (a cell)
    ret,      \* its result: Pending before the call, then a date, None or Raised
    workbook,      \* the uploaded file: readable or not, and its sheets in order
    dataset_name,  \* the dataset type of the import: which entry point runs
    pc,            \* process_management_report: the try block it is at (5: the return)
    status,        \* report -> "not_started", "running", "succeeded" or "failed"
    results,       \* report -> what its transformer returned or raised (the *_df locals)
    sheet_read,    \* report -> index of the sheet handed to read_excel, 0 for none
    bundle,        \* the dictionary process_management_report returned, once it has
    raw_rows,       \* Budget Variance: the sheet's rows as read with header=None
    Period,         \* Budget Variance: melt_to_long -> the Period column of the output
    view,           \* import_upload: the statement the request is at
    import_record,  \* import_upload: the saved XeroDataImport row
    tmp_file,       \* import_upload: the temporary file: "none", "exists" or "removed"
    tmp_path        \* import_upload: the local tmp_path: "None" or "set"

tvars == <<report, drop_profit_rows, columns, grid, out, fn, arg, ret>>
bvars == <<workbook, dataset_name, pc, status, results, sheet_read, bundle>>
uvars == <<raw_rows, Period, view, import_record, tmp_file, tmp_path>>
vars == <<report, drop_profit_rows, columns, grid, out, fn, arg, ret,
          workbook, dataset_name, pc, status, results, sheet_read, bundle,
          raw_rows, Period, view, import_record, tmp_file, tmp_path>>

(* No file is under import *)
NoImport ==
    /\ workbook = <<>> /\ dataset_name = "none" /\ pc = 0
    /\ status = <<>> /\ results = <<>> /\ sheet_read = <<>> /\ bundle = <<>>

(* No banner is read and no upload request is running *)
NoUpload ==
    /\ raw_rows = <<>> /\ Period = <<>>
    /\ view = "none" /\ import_record = <<>> /\ tmp_file = "none" /\ tmp_path = "None"

----------------------------------------------------------------------------
(* Tokens and strings *)

W(w) == [t |-> "w", w |-> w, d |-> <<>>]
D(ds) == [t |-> "d", w |-> "", d |-> ds]
S == [t |-> "s", w |-> " ", d |-> <<>>]
P(c) == [t |-> "p", w |-> c, d |-> <<>>]

(* Cells of a worksheet as pandas hands them over: NaN, a number, a string *)
NaN == [k |-> "nan", n |-> 0, s |-> <<>>]
NumCell(n) == [k |-> "num", n |-> n, s |-> <<>>]
StrCell(s) == [k |-> "str", n |-> 0, s |-> s]

(* str.lower() on the words the model uses *)
LowerPairs ==
    { <<"Jan", "jan">>, <<"Feb", "feb">>, <<"Mar", "mar">>, <<"Apr", "apr">>,
      <<"May", "may">>, <<"Jun", "jun">>, <<"Jul", "jul">>, <<"Aug", "aug">>,
      <<"Sep", "sep">>, <<"Oct", "oct">>, <<"Nov", "nov">>, <<"Dec", "dec">>,
      <<"January", "january">>, <<"February", "february">>, <<"March", "march">>,
      <<"April", "april">>, <<"June", "june">>, <<"July", "july">>,
      <<"August", "august">>, <<"September", "september">>,
      <<"October", "october">>, <<"November", "november">>,
      <<"December", "december">>, <<"DECEMBER", "december">>, <<"MAR", "mar">>,
      <<"Sept", "sept">>, <<"Foo", "foo">>,
      <<"For", "for">>, <<"FOR", "for">>, <<"THE", "the">>, <<"Month", "month">>,
      <<"PERIOD", "period">>, <<"ENDED", "ended">>, <<"Ended", "ended">>,
      <<"Total", "total">>, <<"TOTAL", "total">>, <<"Net", "net">>,
      <<"NET", "net">>, <<"Gross", "gross">>, <<"GROSS", "gross">>, <<"Profit", "profit">>,
      <<"PROFIT", "profit">>, <<"Sales", "sales">>, <<"Rent", "rent">>,
      <<"Revenue", "revenue">>, <<"Expenses", "expenses">>, <<"Margin", "margin">>,
      <<"Variance", "variance">>, <<"Year", "year">>, <<"YTD", "ytd">>,
      <<"Account", "account">>, <<"Description", "description">>,
      <<"Actual", "actual">>, <<"Budget", "budget">>,
      <<"Loss", "loss">>, <<"PY", "py">>, <<"P", "p">>, <<"L", "l">>,
      <<"Balance", "balance">>, <<"Sheet", "sheet">>, <<"Summary", "summary">>,
      <<"Overall", "overall">>, <<"BUDGET", "budget">>, <<"SUMMARY", "summary">>,
      <<"OVERALL", "overall">>, <<"Group", "group">>, <<"Notes", "notes">>,
      <<"BALANCE", "balance">>, <<"SHEET", "sheet">> }

LowerWord(w) ==
    IF \E p \in LowerPairs : p[1] = w
    THEN (CHOOSE p \in LowerPairs : p[1] = w)[2]
    ELSE w

LowerTok(tk) == IF tk.t = "w" THEN W(LowerWord(tk.w)) ELSE tk

Lower(s) == [i \in 1..Len(s) |-> LowerTok(s[i])]

RECURSIVE LStrip(_)
LStrip(s) == IF s # <<>> /\ Head(s).t = "s" THEN LStrip(Tail(s)) ELSE s

RECURSIVE RStrip(_)
RStrip(s) ==
    IF s # <<>> /\ s[Len(s)].t = "s" THEN RStrip(SubSeq(s, 1, Len(s) - 1)) ELSE s

Strip(s) == RStrip(LStrip(s))

StartsWith(s, p) == Len(s) >= Len(p) /\ SubSeq(s, 1, Len(p)) = p

Contains(s, p) ==
    \E i \in 1..(Len(s) - Len(p) + 1) : SubSeq(s, i, i + Len(p) - 1) = p

(* The value of a run of decimal digits *)
RECURSIVE DigitsValue(_)
DigitsValue(ds) ==
    IF ds = <<>> THEN 0 ELSE 10 * DigitsValue(SubSeq(ds, 1, Len(ds) - 1)) + ds[Len(ds)]

----------------------------------------------------------------------------
(* Dates, datetime.strptime and the two period parsers *)

None == [k |-> "none", y |-> 0, m |-> 0, d |-> 0]
Raised == [k |-> "raised", y |-> 0, m |-> 0, d |-> 0]
Pending == [k |-> "pending", y |-> 0, m |-> 0, d |-> 0]
ValueError == [k |-> "ValueError", y |-> 0, m |-> 0, d |-> 0]
Date(y, m, d) == [k |-> "date", y |-> y, m |-> m, d |-> d]

(* %b and %B of the C locale, lower-cased: strptime matches ignoring case *)
AbbrNames ==
    <<"jan", "feb", "mar", "apr", "may", "jun",
      "jul", "aug", "sep", "oct", "nov", "dec">>
FullNames ==
    <<"january", "february", "march", "april", "may", "june",
      "july", "august", "september", "october", "november", "december">>

MonthIndex(names, w) ==
    IF \E i \in 1..Len(names) : names[i] = LowerWord(w)
    THEN CHOOSE i \in 1..Len(names) : names[i] = LowerWord(w)
    ELSE 0

IsLeap(y) == (y % 4 = 0 /\ y % 100 # 0) \/ y % 400 = 0

DaysInMonth(y, m) ==
    IF m = 2 THEN (IF IsLeap(y) THEN 29 ELSE 28)
    ELSE IF m \in {4, 6, 9, 11} THEN 30 ELSE 31

(* datetime(y, m, d): ValueError for year 0 and for a day the month lacks *)
MakeDate(y, m, d) ==
    IF y >= 1 /\ y <= 9999 /\ m \in 1..12 /\ d >= 1 /\ d <= DaysInMonth(y, m)
    THEN Date(y, m, d)
    ELSE ValueError

(* The spaces of a format match \s+ ; the whole string must be consumed *)
AllSpaces(s, lo, hi) == \A i \in lo..hi : s[i].t = "s"

(* datetime.strptime(s, "%b %Y") (names = AbbrNames) or "%B %Y" (FullNames) *)
StrptimeMonthYear(s, names) ==
    LET n == Len(s) IN
    IF /\ n >= 3
       /\ s[1].t = "w"
       /\ MonthIndex(names, s[1].w) # 0
       /\ AllSpaces(s, 2, n - 1)
       /\ s[n].t = "d"
       /\ Len(s[n].d) = 4
    THEN MakeDate(DigitsValue(s[n].d), MonthIndex(names, s[1].w), 1)
    ELSE ValueError

(* datetime.strptime(s, "%d %B %Y") or "%d %b %Y": %d takes 1..31 *)
StrptimeDayMonthYear(s, names) ==
    LET n == Len(s) IN
    IF /\ n >= 5
       /\ s[1].t = "d"
       /\ Len(s[1].d) \in {1, 2}
       /\ DigitsValue(s[1].d) \in 1..31
       /\ s[n].t = "d"
       /\ Len(s[n].d) = 4
       /\ \E j \in 3..(n - 2) :
            /\ s[j].t = "w"
            /\ MonthIndex(names, s[j].w) # 0
            /\ AllSpaces(s, 2, j - 1)
            /\ AllSpaces(s, j + 1, n - 1)
    THEN LET j == CHOOSE j \in 3..(n - 2) : s[j].t = "w" IN
         MakeDate(DigitsValue(s[n].d), MonthIndex(names, s[j].w), DigitsValue(s[1].d))
    ELSE ValueError

(* management_report.py parse_period_to_date, without the "%B %Y" retry *)
parse_period_to_date_abbr_only(period_str) ==
    IF period_str.k # "str" THEN None
    ELSE LET r == StrptimeMonthYear(Strip(period_str.s), AbbrNames) IN
         IF r # ValueError THEN r ELSE None

parse_period_to_date(period_str) ==
    IF period_str.k # "str" THEN None
    ELSE LET s == Strip(period_str.s)
             r1 == StrptimeMonthYear(s, AbbrNames)
             r2 == StrptimeMonthYear(s, FullNames)
         IN  IF r1 # ValueError THEN r1
             ELSE IF r2 # ValueError THEN r2
             ELSE None

(* 'for the month ended' / 'for the period ended' *)
PhraseMonth == <<W("for"), S, W("the"), S, W("month"), S, W("ended")>>
PhrasePeriod == <<W("for"), S, W("the"), S, W("period"), S, W("ended")>>

(* The first token after position i that is not whitespace (0: none) *)
RECURSIVE NextNonSpace(_, _)
NextNonSpace(text, i) ==
    IF i + 1 > Len(text) THEN 0
    ELSE IF text[i + 1].t # "s" THEN i + 1
    ELSE NextNonSpace(text, i + 1)

(* re.search(r'(\d{1,2}\s+[A-Za-z]+\s+\d{4})', text) can match with its day  *)
(* digits ending digit run i: whitespace, one word, whitespace and a digit   *)
(* run of at least 4 digits follow.                                          *)
MatchAt(text, i) ==
    LET j == NextNonSpace(text, i)
        l == IF j = 0 THEN 0 ELSE NextNonSpace(text, j)
    IN  /\ text[i].t = "d"
        /\ j >= i + 2
        /\ text[j].t = "w"
        /\ l >= j + 2
        /\ text[l].t = "d"
        /\ Len(text[l].d) >= 4

MatchStarts(text) == { i \in 1..Len(text) : MatchAt(text, i) }

LastDigits(ds, n) == IF Len(ds) <= n THEN ds ELSE SubSeq(ds, Len(ds) - n + 1, Len(ds))

(* match.group(1) of the leftmost match *)
MatchGroup(text) ==
    LET i == CHOOSE i \in MatchStarts(text) : \A i2 \in MatchStarts(text) : i <= i2
        l == NextNonSpace(text, NextNonSpace(text, i))
    IN  <<D(LastDigits(text[i].d, 2))>> \o SubSeq(text, i + 1, l - 1)
            \o <<D(SubSeq(text[l].d, 1, 4))>>

(* parse_report_period whose phrase test forgets text.lower() *)
parse_report_period_case_sensitive(text) ==
    IF text.k # "str" THEN None
    ELSE IF ~Contains(text.s, PhraseMonth) /\ ~Contains(text.s, PhrasePeriod) THEN None
    ELSE IF MatchStarts(text.s) = {} THEN None
    ELSE LET date_str == Strip(MatchGroup(text.s))
             r1 == StrptimeDayMonthYear(date_str, FullNames)
             r2 == StrptimeDayMonthYear(date_str, AbbrNames)
         IN  IF r1 # ValueError THEN r1
             ELSE IF r2 # ValueError THEN r2
             ELSE None

parse_report_period(text) ==
    IF text.k # "str" THEN None
    ELSE LET text_lower == Lower(text.s) IN
         IF ~Contains(text_lower, PhraseMonth) /\ ~Contains(text_lower, PhrasePeriod)
         THEN None
         ELSE IF MatchStarts(text.s) = {} THEN None
         ELSE LET date_str == Strip(MatchGroup(text.s))
                  r1 == StrptimeDayMonthYear(date_str, FullNames)
                  r2 == StrptimeDayMonthYear(date_str, AbbrNames)
              IN  IF r1 # ValueError THEN r1
                  ELSE IF r2 # ValueError THEN r2
                  ELSE None

----------------------------------------------------------------------------
(* pandas helpers.  A sheet row is [sec, acc, vals]: the cell of the first  *)
(* column ('Unnamed: 0', renamed Section; NaN in the sheets that have one    *)
(* label column only), the cell of the Account column, the value cells.      *)

IsNa(c) == c.k = "nan"
NotNa(c) == c.k # "nan"

AllNa(vals) == \A i \in 1..Len(vals) : IsNa(vals[i])

RECURSIVE Digits(_)
Digits(n) == IF n < 10 THEN <<n>> ELSE Digits(n \div 10) \o <<n % 10>>

(* str(x) of a cell: 'nan' for NaN, the float repr of a number *)
AsStr(c) ==
    IF c.k = "nan" THEN <<W("nan")>>
    ELSE IF c.k = "num" THEN <<D(Digits(c.n)), P("."), D(<<0>>)>>
    ELSE c.s

IsZeros(ds) == \A i \in 1..Len(ds) : ds[i] = 0

(* pd.to_numeric(errors='coerce') of one cell: digits, or digits '.' zeros;  *)
(* NaN for any other text                                                    *)
ToNumeric(c) ==
    IF c.k # "str" THEN c
    ELSE IF Len(c.s) = 1 /\ c.s[1].t = "d" THEN NumCell(DigitsValue(c.s[1].d))
    ELSE IF /\ Len(c.s) = 3
            /\ c.s[1].t = "d" /\ c.s[2] = P(".") /\ c.s[3].t = "d"
            /\ IsZeros(c.s[3].d)
         THEN NumCell(DigitsValue(c.s[1].d))
    ELSE NaN

(* Series.ffill() *)
RECURSIVE FFill(_, _)
FFill(cells, last) ==
    IF cells = <<>> THEN <<>>
    ELSE LET c == IF NotNa(Head(cells)) THEN Head(cells) ELSE last
         IN  <<c>> \o FFill(Tail(cells), c)

(* str.lower().str.startswith('total', na=False) *)
StartsWithTotal(c) == c.k = "str" /\ StartsWith(Lower(c.s), <<W("total")>>)

(* re.search('gross\s*profit|net\s*profit', s, re.I) *)
RECURSIVE SkipSpaces(_, _)
SkipSpaces(s, i) == IF i <= Len(s) /\ s[i].t = "s" THEN SkipSpaces(s, i + 1) ELSE i

ContainsProfit(s) ==
    \E i \in 1..Len(s) :
        /\ s[i].t = "w"
        /\ LowerWord(s[i].w) \in {"gross", "net"}
        /\ LET j == SkipSpaces(s, i + 1) IN
           j <= Len(s) /\ s[j].t = "w" /\ LowerWord(s[j].w) = "profit"

(* df[cols]: the value cells of the columns kept *)
SelectCols(vals, keep) == [i \in 1..Len(keep) |-> vals[keep[i]]]

(* The indices of the columns that are not dropped *)
RECURSIVE KeepIndices(_, _)
KeepIndices(dropped, i) ==
    IF i > Len(dropped) THEN <<>>
    ELSE (IF dropped[i] THEN <<>> ELSE <<i>>) \o KeepIndices(dropped, i + 1)

(* What a transformer returns or raises *)
NotCalled == [st |-> "none", err |-> "", cols |-> <<>>, rows |-> <<>>]
Returned(cols, rows) == [st |-> "ok", err |-> "", cols |-> cols, rows |-> rows]
Raises(e) == [st |-> "raised", err |-> e, cols |-> <<>>, rows |-> <<>>]

(* The output of a layout without a Subsection column has no such field *)
NoCol == [k |-> "nocol", n |-> 0, s |-> <<>>]

----------------------------------------------------------------------------
(* The Section + Account layout: transform_profit_and_loss,                  *)
(* transform_profit_and_loss_vs_py and transform_balance_sheet run the same  *)
(* steps on the wide table.  A frame row is [sec, sub, acc, vals].           *)

YearToDate == <<W("year"), S, W("to"), S, W("date")>>

IsYtdCol(h) == h.k = "str" /\ Contains(Lower(h.s), YearToDate)

(* The value columns left after the 'Year to date' columns are dropped *)
SA_KeptCols(cols) == KeepIndices([i \in 1..Len(cols) |-> IsYtdCol(cols[i])], 1)

HeadersOf(cols, keep) == [i \in 1..Len(keep) |-> cols[keep[i]]]

(* read_excel, dropna(how="all"), drop of the YTD columns *)
SA_Read(g, cols) ==
    LET NotEmpty(r) == ~(IsNa(r.sec) /\ IsNa(r.acc) /\ AllNa(r.vals))
        kept == SelectSeq(g, NotEmpty)
        keep == SA_KeptCols(cols)
    IN  [i \in 1..Len(kept) |->
            [sec |-> kept[i].sec, sub |-> NaN, acc |-> kept[i].acc,
             vals |-> SelectCols(kept[i].vals, keep)]]

(* astype(str).str.strip().replace(['', 'nan', 'NaN', 'None'], np.nan) *)
CleanSection(c) ==
    LET s == Strip(AsStr(c)) IN
    IF s \in {<<>>, <<W("nan")>>, <<W("NaN")>>, <<W("None")>>} THEN NaN ELSE StrCell(s)

(* Clean & filter Section: clean, drop the 'total' sections, ffill *)
SA_Section(df) ==
    LET cleaned == [i \in 1..Len(df) |-> [df[i] EXCEPT !.sec = CleanSection(@)]]
        NotTotal(r) == ~StartsWithTotal(r.sec)
        kept == SelectSeq(cleaned, NotTotal)
        filled == FFill([i \in 1..Len(kept) |-> kept[i].sec], NaN)
    IN  [i \in 1..Len(kept) |-> [kept[i] EXCEPT !.sec = filled[i]]]

(* Remove pure section headers *)
SA_PureHeaders(df) ==
    LET NotPureHeader(r) ==
            ~(/\ NotNa(r.sec)
              /\ r.sec.s # <<>>
              /\ AllNa(r.vals)
              /\ (IsNa(r.acc) \/ Strip(AsStr(r.acc)) = <<>>))
    IN  SelectSeq(df, NotPureHeader)

IsSubsectionHeader(r) ==
    NotNa(r.sec) /\ NotNa(r.acc) /\ r.acc # StrCell(<<>>) /\ AllNa(r.vals)

(* Create Subsection: the header's Account, ffill within groupby('Section')  *)
(* (rows of equal Section form one group wherever they are; rows without a  *)
(* Section are in no group), then Section where still missing                *)
SA_Subsection(df) ==
    LET marked == [i \in 1..Len(df) |->
                     IF IsSubsectionHeader(df[i]) THEN df[i].acc ELSE NaN]
        Before(i) == { j \in 1..i : df[j].sec = df[i].sec /\ NotNa(marked[j]) }
        Last(i) == CHOOSE j \in Before(i) : \A j2 \in Before(i) : j2 <= j
        grouped == [i \in 1..Len(df) |->
                      IF IsNa(df[i].sec) \/ Before(i) = {} THEN NaN
                      ELSE marked[Last(i)]]
    IN  [i \in 1..Len(df) |->
            [df[i] EXCEPT !.sub = IF IsNa(grouped[i]) THEN df[i].sec ELSE grouped[i]]]

IsProfitRow(r) == NotNa(r.acc) /\ ContainsProfit(AsStr(r.acc))

(* Handle Gross/Net Profit rows *)
SA_Profit(df, drop) ==
    LET NotProfit(r) == ~IsProfitRow(r) IN
    IF drop THEN SelectSeq(df, NotProfit)
    ELSE [i \in 1..Len(df) |->
            IF IsProfitRow(df[i])
            THEN [df[i] EXCEPT !.sec = df[i].acc, !.sub = df[i].acc]
            ELSE df[i]]

(* Remove label/subtotal rows (Section + Subsection + Account, no numbers) *)
SA_LabelOnly(df, ncols) ==
    LET NotLabelOnly(r) ==
            ~(NotNa(r.sec) /\ NotNa(r.sub) /\ NotNa(r.acc) /\ AllNa(r.vals))
    IN  IF ncols = 0 THEN df ELSE SelectSeq(df, NotLabelOnly)

(* astype(str).str.strip().replace('nan', np.nan) *)
CleanAccount(c) ==
    LET s == Strip(AsStr(c)) IN
    IF s = <<W("nan")>> THEN NaN ELSE StrCell(s)

(* Clean Account, remove total-starting Account rows *)
SA_Account(df) ==
    LET cleaned == [i \in 1..Len(df) |-> [df[i] EXCEPT !.acc = CleanAccount(@)]]
        NotTotal(r) == ~StartsWithTotal(r.acc)
    IN  SelectSeq(cleaned, NotTotal)

(* The wide table of the three Section + Account transformers *)
SA_Wide(g, cols, drop) ==
    SA_Account(
        SA_LabelOnly(
            SA_Profit(
                SA_Subsection(SA_PureHeaders(SA_Section(SA_Read(g, cols)))),
                drop),
            Len(SA_KeptCols(cols))))

(* pd.melt: one record per (value column, row), column by column.  col is    *)
(* the index of the value column among the columns kept.                     *)
RECURSIVE Melt(_, _, _)
Melt(df, c, ncols) ==
    IF c > ncols THEN <<>>
    ELSE [i \in 1..Len(df) |->
            [sec |-> df[i].sec, sub |-> df[i].sub, acc |-> df[i].acc,
             col |-> c, amount |-> df[i].vals[c]]]
         \o Melt(df, c + 1, ncols)

HasAmount_nonzero(f) == NotNa(f.amount) /\ f.amount # NumCell(0)

HasAmount(f) == NotNa(f.amount)

(* NumericFacts without the dropna that follows the coercion *)
NumericFacts_keep_coerced(melted) ==
    LET present == SelectSeq(melted, HasAmount)
    IN  [i \in 1..Len(present) |-> [present[i] EXCEPT !.amount = ToNumeric(@)]]

(* dropna(subset=['amount']); pd.to_numeric(errors='coerce'); dropna *)
NumericFacts(melted) ==
    LET present == SelectSeq(melted, HasAmount)
        coerced == [i \in 1..Len(present) |->
                      [present[i] EXCEPT !.amount = ToNumeric(@)]]
    IN  SelectSeq(coerced, HasAmount)

(* period_date = period_str.apply(parse_period_to_date) *)
WithPeriodDate(facts, headers) ==
    [i \in 1..Len(facts) |->
        [sec |-> facts[i].sec, sub |-> facts[i].sub, acc |-> facts[i].acc,
         col |-> facts[i].col, amount |-> facts[i].amount,
         period_date |-> parse_period_to_date(headers[facts[i].col])]]

(* The melt of transform_profit_and_loss and of transform_balance_sheet *)
SA_Long(wide, headers) ==
    Returned(headers, WithPeriodDate(NumericFacts(Melt(wide, 1, Len(headers))), headers))

transform_profit_and_loss(g, cols, drop, melt_to_long) ==
    LET wide == SA_Wide(g, cols, drop)
        headers == HeadersOf(cols, SA_KeptCols(cols))
    IN  IF melt_to_long THEN SA_Long(wide, headers) ELSE Returned(headers, wide)

transform_balance_sheet(g, cols, drop, melt_to_long) ==
    LET wide == SA_Wide(g, cols, drop)
        headers == HeadersOf(cols, SA_KeptCols(cols))
    IN  IF melt_to_long THEN SA_Long(wide, headers) ELSE Returned(headers, wide)

(* str.replace(',', '.') *)
ReplaceComma(s) == [i \in 1..Len(s) |-> IF s[i] = P(",") THEN P(".") ELSE s[i]]

(* amount.notna() & (amount != 0); astype(str).str.replace(',', '.')          *)
(* .replace('', np.nan); pd.to_numeric(errors='coerce'); dropna               *)
VsPyFacts(melted) ==
    LET NonZero(f) == NotNa(f.amount) /\ f.amount # NumCell(0)
        present == SelectSeq(melted, NonZero)
        AsText(c) == LET s == ReplaceComma(AsStr(c)) IN
                     IF s = <<>> THEN NaN ELSE StrCell(s)
        coerced == [i \in 1..Len(present) |->
                      [present[i] EXCEPT !.amount = ToNumeric(AsText(@))]]
    IN  SelectSeq(coerced, HasAmount)

(* The melt of transform_profit_and_loss_vs_py.  period_date.dt.year raises  *)
(* AttributeError unless the period_date column is datetime-like, which it   *)
(* is only when at least one row has a parsed date.                          *)
VsPyLong(wide, headers) ==
    IF headers = <<>> THEN Raises("ValueError")
    ELSE LET facts == WithPeriodDate(VsPyFacts(Melt(wide, 1, Len(headers))), headers)
         IN  IF \A i \in 1..Len(facts) : facts[i].period_date = None
             THEN Raises("AttributeError")
             ELSE Returned(headers, facts)

transform_profit_and_loss_vs_py(g, cols, drop, melt_to_long) ==
    LET wide == SA_Wide(g, cols, drop)
        headers == HeadersOf(cols, SA_KeptCols(cols))
    IN  IF melt_to_long THEN VsPyLong(wide, headers) ELSE Returned(headers, wide)

----------------------------------------------------------------------------
(* transform_budget_variance_report: one label column (the account column)  *)

IsTotalCol(h) == h.k = "str" /\ Lower(Strip(h.s)) = <<W("total")>>

BV_KeptCols(cols) == KeepIndices([i \in 1..Len(cols) |-> IsTotalCol(cols[i])], 1)

(* 'Actual', 'Budget', 'Variance', ...: the value columns of the output *)
DesiredCols ==
    { <<W("Actual")>>, <<W("Budget")>>, <<W("Variance")>>,
      <<W("Variance"), S, P("%")>>,
      <<W("YTD"), S, W("Actual")>>, <<W("YTD"), S, W("Budget")>>,
      <<W("Variance"), P("."), D(<<1>>)>>,
      <<W("Variance"), S, P("%"), P("."), D(<<1>>)>> }

IsDesiredCol(h) == h.k = "str" /\ h.s \in DesiredCols

(* read_excel, dropna(how="all"), drop of the 'total' columns *)
BV_Read(g, cols) ==
    LET NotEmpty(r) == ~(IsNa(r.acc) /\ AllNa(r.vals))
        kept == SelectSeq(g, NotEmpty)
        keep == BV_KeptCols(cols)
    IN  [i \in 1..Len(kept) |->
            [sec |-> NaN, sub |-> NoCol, acc |-> kept[i].acc,
             vals |-> SelectCols(kept[i].vals, keep)]]

(* astype(str).str.strip().replace('', np.nan) *)
BV_CleanAccount(c) ==
    LET s == Strip(AsStr(c)) IN
    IF s = <<>> THEN NaN ELSE StrCell(s)

(* clean the account column, drop the rows whose account starts with 'total' *)
BV_Account(df) ==
    LET cleaned == [i \in 1..Len(df) |-> [df[i] EXCEPT !.acc = BV_CleanAccount(@)]]
        NotTotal(r) == ~StartsWithTotal(r.acc)
    IN  SelectSeq(cleaned, NotTotal)

BV_IsSectionHeader(r) == NotNa(r.acc) /\ r.acc.s # <<>> /\ AllNa(r.vals)

(* Section = where(is_section_header, account, nan).ffill(); drop the headers *)
BV_Section(df) ==
    LET marked == [i \in 1..Len(df) |->
                     IF BV_IsSectionHeader(df[i]) THEN df[i].acc ELSE NaN]
        filled == FFill(marked, NaN)
        withSec == [i \in 1..Len(df) |-> [df[i] EXCEPT !.sec = filled[i]]]
        NotHeader(r) == ~BV_IsSectionHeader(r)
    IN  SelectSeq(withSec, NotHeader)

(* if not drop_profit_rows: Section of the profit rows = their account.      *)
(* With drop_profit_rows the profit rows are left as they are.               *)
BV_Profit(df, drop) ==
    IF drop THEN df
    ELSE [i \in 1..Len(df) |->
            IF df[i].acc.k = "str" /\ ContainsProfit(df[i].acc.s)
            THEN [df[i] EXCEPT !.sec = df[i].acc]
            ELSE df[i]]

(* Section.astype(str).str.strip().replace('nan', np.nan) *)
BV_CleanSection(df) == [i \in 1..Len(df) |-> [df[i] EXCEPT !.sec = CleanAccount(@)]]

(* df[existing]: of the value columns only the desired ones stay *)
BV_DesiredIdx(headers) ==
    KeepIndices([i \in 1..Len(headers) |-> ~IsDesiredCol(headers[i])], 1)

BV_Wide(g, cols, drop) ==
    LET headers == HeadersOf(cols, BV_KeptCols(cols))
        df == BV_CleanSection(BV_Profit(BV_Section(BV_Account(BV_Read(g, cols))), drop))
        want == BV_DesiredIdx(headers)
    IN  [i \in 1..Len(df) |-> [df[i] EXCEPT !.vals = SelectCols(@, want)]]

(* The melt of transform_budget_variance_report: metric, value *)
BV_Long(wide, headers) ==
    IF headers = <<>> THEN Raises("ValueError")
    ELSE LET facts == NumericFacts(Melt(wide, 1, Len(headers))) IN
         Returned(headers,
                  [i \in 1..Len(facts) |->
                      [sec |-> facts[i].sec, sub |-> facts[i].sub,
                       acc |-> facts[i].acc, col |-> facts[i].col,
                       amount |-> facts[i].amount, period_date |-> None]])

transform_budget_variance_report(g, cols, drop, melt_to_long) ==
    LET kept == HeadersOf(cols, BV_KeptCols(cols))
        headers == HeadersOf(kept, BV_DesiredIdx(kept))
        wide == BV_Wide(g, cols, drop)
    IN  IF melt_to_long THEN BV_Long(wide, headers) ELSE Returned(headers, wide)

----------------------------------------------------------------------------
(* transform_budget_summary: one label column (Account), a row loop *)

IsBsTotalCol(h) == h = StrCell(<<W("Total")>>)

BS_KeptCols(cols) == KeepIndices([i \in 1..Len(cols) |-> IsBsTotalCol(cols[i])], 1)

(* read_excel, dropna(how="all"), drop of the Total column *)
BS_Read(g, cols) ==
    LET NotEmpty(r) == ~(IsNa(r.acc) /\ AllNa(r.vals))
        kept == SelectSeq(g, NotEmpty)
        keep == BS_KeptCols(cols)
    IN  [i \in 1..Len(kept) |->
            [acc |-> kept[i].acc, vals |-> SelectCols(kept[i].vals, keep)]]

GrossProfit == <<W("Gross"), S, W("Profit")>>
NetProfit == <<W("Net"), S, W("Profit")>>

(* Mutation: no row is skipped as a total row *)
BS_IsTotal_never(account) == FALSE

(* account.lower().startswith("total ") *)
BS_IsTotal(account) == StartsWith(Lower(account), <<W("total"), S>>)

(* The row loop: processed_rows, carrying current_section (<<>> is None;     *)
(* an empty string is as false as None in "if current_section")              *)
RECURSIVE BS_Loop(_, _)
BS_Loop(df, current_section) ==
    IF df = <<>> THEN <<>>
    ELSE LET row == Head(df)
             account == Strip(AsStr(row.acc))
         IN  IF IsNa(row.acc) THEN BS_Loop(Tail(df), current_section)
             ELSE IF AllNa(row.vals) THEN BS_Loop(Tail(df), account)
             ELSE IF BS_IsTotal(account) THEN BS_Loop(Tail(df), <<>>)
             ELSE LET section == IF current_section # <<>> THEN current_section
                                 ELSE account
                      record == [sec |-> StrCell(section), sub |-> NoCol,
                                 acc |-> StrCell(account), vals |-> row.vals]
                  IN  <<record>> \o
                      BS_Loop(Tail(df),
                              IF account \in {GrossProfit, NetProfit}
                              THEN <<>> ELSE current_section)

(* account.str.lower().str.strip().isin(['net profit', 'gross profit']) *)
BS_IsProfit(r) == Strip(Lower(r.acc.s)) \in {Lower(NetProfit), Lower(GrossProfit)}

BS_DropProfit(rows, drop) ==
    LET NotProfit(r) == ~BS_IsProfit(r) IN
    IF drop THEN SelectSeq(rows, NotProfit) ELSE rows

transform_budget_summary(g, cols, drop, melt_to_long) ==
    LET headers == HeadersOf(cols, BS_KeptCols(cols))
        processed_rows == BS_Loop(BS_Read(g, cols), <<>>)
    IN  IF processed_rows = <<>> THEN Raises("ValueError")
        ELSE IF melt_to_long
        THEN Returned(headers,
                      WithPeriodDate(
                          BS_DropProfit(
                              NumericFacts(Melt(processed_rows, 1, Len(headers))),
                              drop),
                          headers))
        ELSE Returned(headers, BS_DropProfit(processed_rows, drop))

----------------------------------------------------------------------------
(* Calls of the transformers on drawn sheets *)

MaxRows == 3

Txt(s) == StrCell(s)
Num(n) == NumCell(n)

H_Jan2025 == Txt(<<W("Jan"), S, D(<<2, 0, 2, 5>>)>>)
H_Feb2025 == Txt(<<W("Feb"), S, D(<<2, 0, 2, 5>>)>>)
H_Variance == Txt(<<W("Variance")>>)
H_Notes == Txt(<<W("Notes")>>)
H_YearToDate == Txt(<<W("Year"), S, W("to"), S, W("date")>>)
H_Total == Txt(<<W("Total")>>)
H_Actual == Txt(<<W("Actual")>>)
H_Budget == Txt(<<W("Budget")>>)

L_Revenue == Txt(<<W("Revenue")>>)
L_Expenses == Txt(<<W("Expenses")>>)
L_Sales == Txt(<<W("Sales")>>)
L_Rent == Txt(<<W("Rent")>>)
L_Total == Txt(<<W("Total")>>)
L_TotalRevenue == Txt(<<W("TOTAL"), S, W("Revenue")>>)
L_NetProfit == Txt(<<W("Net"), S, W("Profit")>>)
L_NetProfitMargin == Txt(<<S, W("net"), S, W("profit"), S, W("margin")>>)

T_NotANumber == Txt(<<W("n"), P("/"), W("a")>>)
T_Seven == Txt(<<D(<<7>>)>>)
T_Thousand == Txt(<<D(<<1>>), P(","), D(<<0, 0, 0>>)>>)

Row(sec, acc, v1, v2) == [sec |-> sec, acc |-> acc, vals |-> <<v1, v2>>]

(* Rows of a sheet with a Section and an Account column *)
SectionAccountRows ==
    { Row(L_Revenue, NaN, NaN, NaN),
      Row(L_Expenses, NaN, NaN, NaN),
      Row(L_TotalRevenue, NaN, Num(5), Num(5)),
      Row(L_Revenue, NaN, Num(5), NaN),
      Row(NaN, L_Sales, Num(5), Num(0)),
      Row(NaN, L_Sales, Num(0), NaN),
      Row(NaN, L_Sales, T_NotANumber, NaN),
      Row(NaN, L_Rent, NaN, NaN),
      Row(NaN, L_Rent, T_Seven, T_Thousand),
      Row(NaN, L_Total, Num(5), NaN),
      Row(NaN, L_NetProfit, Num(5), NaN),
      Row(NaN, L_NetProfitMargin, Num(5), Num(5)),
      Row(NaN, NaN, Num(5), NaN),
      Row(NaN, NaN, NaN, NaN) }

(* Rows of a sheet with one label column *)
AccountRows ==
    { Row(NaN, L_Revenue, NaN, NaN),
      Row(NaN, L_Expenses, NaN, NaN),
      Row(NaN, L_TotalRevenue, Num(5), Num(5)),
      Row(NaN, L_Sales, Num(5), Num(0)),
      Row(NaN, L_Sales, Num(0), NaN),
      Row(NaN, L_Sales, T_NotANumber, NaN),
      Row(NaN, L_Rent, T_Seven, T_Thousand),
      Row(NaN, L_Total, Num(5), NaN),
      Row(NaN, L_NetProfit, Num(5), NaN),
      Row(NaN, L_NetProfitMargin, Num(5), Num(5)),
      Row(NaN, NaN, Num(5), NaN),
      Row(NaN, NaN, NaN, NaN) }

PeriodColumns ==
    { <<H_Jan2025, H_Variance>>, <<H_Variance, H_Notes>>, <<H_Jan2025, H_YearToDate>> }

SummaryColumns ==
    { <<H_Jan2025, H_Variance>>, <<H_Variance, H_Notes>>, <<H_Jan2025, H_Total>>,
      <<H_Jan2025, H_Feb2025>> }

(* listed in the order of desired_cols *)
VarianceColumns ==
    { <<H_Actual, H_Budget>>, <<H_Actual, H_Notes>>, <<H_Actual, H_Total>> }

Sheets(rows) == UNION { [1..n -> rows] : n \in 0..MaxRows }

SectionAccountReports == {"profit_loss_vs_py", "profit_loss", "balance_sheet"}

Init ==
    /\ \/ /\ report \in SectionAccountReports
          /\ columns \in PeriodColumns
          /\ grid \in Sheets(SectionAccountRows)
       \/ /\ report = "budget_variance"
          /\ columns \in VarianceColumns
          /\ grid \in Sheets(AccountRows)
       \/ /\ report = "budget_summary"
          /\ columns \in SummaryColumns
          /\ grid \in Sheets(AccountRows)
    /\ drop_profit_rows \in BOOLEAN
    /\ out = [m \in BOOLEAN |-> NotCalled]
    /\ fn = "none" /\ arg = NaN /\ ret = Pending
    /\ NoImport
    /\ NoUpload

Call(name, result, melt_to_long) ==
    /\ report = name
    /\ out[melt_to_long] = NotCalled
    /\ out' = [out EXCEPT ![melt_to_long] = result]
    /\ UNCHANGED <<report, drop_profit_rows, columns, grid, fn, arg, ret>>
    /\ UNCHANGED bvars
    /\ UNCHANGED uvars

CallProfitAndLossVsPy ==
    \E m \in BOOLEAN :
        Call("profit_loss_vs_py",
             transform_profit_and_loss_vs_py(grid, columns, drop_profit_rows, m), m)

CallProfitAndLoss ==
    \E m \in BOOLEAN :
        Call("profit_loss",
             transform_profit_and_loss(grid, columns, drop_profit_rows, m), m)

CallBalanceSheet ==
    \E m \in BOOLEAN :
        Call("balance_sheet",
             transform_balance_sheet(grid, columns, drop_profit_rows, m), m)

CallBudgetVariance ==
    \E m \in BOOLEAN :
        Call("budget_variance",
             transform_budget_variance_report(grid, columns, drop_profit_rows, m), m)

CallBudgetSummary ==
    \E m \in BOOLEAN :
        Call("budget_summary",
             transform_budget_summary(grid, columns, drop_profit_rows, m), m)

Next ==
    \/ CallProfitAndLossVsPy
    \/ CallProfitAndLoss
    \/ CallBalanceSheet
    \/ CallBudgetVariance
    \/ CallBudgetSummary

Spec == Init /\ [][Next]_vars

----------------------------------------------------------------------------
(* The import of a file: the sheet lookup of each transformer, and           *)
(* process_management_report                                                 *)

MaxSheets == 3

(* A worksheet: its name, whether its header row has an Account column (an   *)
(* account column alias for the Budget Variance report), its value column    *)
(* headers and its rows                                                      *)
Sheet(name, has_account, cols, g) ==
    [name |-> name, has_account |-> has_account, columns |-> cols, grid |-> g]

N_ProfitAndLossVsPy ==
    <<W("Profit"), S, W("and"), S, W("Loss"), S, P("-"), S, W("vs"), S, W("PY")>>
N_ProfitAndLoss == <<W("Profit"), S, W("and"), S, W("Loss")>>
N_GroupPL == <<W("Group"), S, W("P"), P("&"), W("L")>>
N_BalanceSheet == <<W("BALANCE"), S, W("SHEET"), S, D(<<2, 0, 2, 5>>)>>
N_BudgetVariance == <<W("Budget"), S, W("Variance")>>
N_BudgetSummary ==
    <<W("Budget"), S, W("Summary"), S, P("-"), S, W("Overall"), S, W("Budget")>>
N_BudgetSummaryUpper ==
    <<W("BUDGET"), S, W("SUMMARY"), S, P("-"), S, W("OVERALL"), S, W("BUDGET")>>
N_Notes == <<W("Notes")>>

G_Sales == <<Row(L_Revenue, NaN, NaN, NaN), Row(NaN, L_Sales, Num(5), Num(0))>>
G_Rent == <<Row(L_Expenses, NaN, NaN, NaN), Row(NaN, L_Rent, T_Seven, T_Thousand)>>
G_Account == <<Row(NaN, L_Revenue, NaN, NaN), Row(NaN, L_Sales, Num(5), Num(0))>>
G_TotalOnly == <<Row(NaN, L_TotalRevenue, Num(5), Num(5))>>

SheetPool ==
    { Sheet(N_ProfitAndLossVsPy, TRUE, <<H_Jan2025, H_Variance>>, G_Sales),
      Sheet(N_ProfitAndLossVsPy, FALSE, <<H_Jan2025, H_Variance>>, G_Sales),
      Sheet(N_ProfitAndLoss, TRUE, <<H_Jan2025, H_YearToDate>>, G_Rent),
      Sheet(N_ProfitAndLoss, FALSE, <<H_Jan2025, H_YearToDate>>, G_Rent),
      Sheet(N_GroupPL, TRUE, <<H_Jan2025, H_Variance>>, G_Rent),
      Sheet(N_BalanceSheet, TRUE, <<H_Jan2025, H_Variance>>, G_Sales),
      Sheet(N_BalanceSheet, FALSE, <<H_Jan2025, H_Variance>>, G_Sales),
      Sheet(N_BudgetVariance, TRUE, <<H_Actual, H_Budget>>, G_Account),
      Sheet(N_BudgetVariance, FALSE, <<H_Actual, H_Budget>>, G_Account),
      Sheet(N_BudgetSummary, TRUE, <<H_Jan2025, H_Total>>, G_Account),
      Sheet(N_BudgetSummary, TRUE, <<H_Jan2025, H_Total>>, G_TotalOnly),
      Sheet(N_BudgetSummaryUpper, TRUE, <<H_Jan2025, H_Total>>, G_Account),
      Sheet(N_Notes, TRUE, <<H_Jan2025, H_Variance>>, G_Sales) }

(* pd.ExcelFile(file_path) raises on a file it cannot open *)
Unreadable == [readable |-> FALSE, sheets |-> <<>>]

(* Sheet names of one workbook differ, whatever their letter case *)
Workbooks ==
    {Unreadable} \cup
    { [readable |-> TRUE, sheets |-> ss] :
        ss \in { s \in UNION { [1..n -> SheetPool] : n \in 1..MaxSheets } :
                   \A i, j \in 1..Len(s) :
                       i # j => Lower(s[i].name) # Lower(s[j].name) } }

ManagementReports ==
    <<"profit_loss_vs_py", "profit_loss", "balance_sheet", "budget_variance">>

AllReports ==
    { ManagementReports[i] : i \in 1..Len(ManagementReports) } \cup {"budget_summary"}

(* The substrings each transformer looks for in sheet.lower() *)
SheetAliases(rep) ==
    IF rep = "profit_loss_vs_py"
    THEN { Lower(N_ProfitAndLossVsPy),
           <<W("p"), P("&"), W("l"), S, P("-"), S, W("vs"), S, W("py")>> }
    ELSE IF rep = "profit_loss"
    THEN { Lower(N_ProfitAndLoss), <<W("p"), P("&"), W("l")>> }
    ELSE IF rep = "balance_sheet" THEN { <<W("balance"), S, W("sheet")>> }
    ELSE IF rep = "budget_variance" THEN { <<W("budget"), S, W("variance")>> }
    ELSE {}

MatchesAlias(name, rep) == \E a \in SheetAliases(rep) : Contains(Lower(name), a)

(* for sheet in xls.sheet_names: if <alias> in sheet.lower(): ...; break *)
RECURSIVE FindSheet(_, _, _)
FindSheet(sheets, rep, i) ==
    IF i > Len(sheets) THEN 0
    ELSE IF MatchesAlias(sheets[i].name, rep) THEN i
    ELSE FindSheet(sheets, rep, i + 1)

(* read_excel(sheet_name="Budget Summary - Overall Budget"): the sheet of     *)
(* exactly that name                                                         *)
RECURSIVE NamedSheet(_, _, _)
NamedSheet(sheets, name, i) ==
    IF i > Len(sheets) THEN 0
    ELSE IF sheets[i].name = name THEN i
    ELSE NamedSheet(sheets, name, i + 1)

(* The sheet a transformer reads, 0 when it reads none *)
SheetFor(rep, wb) ==
    IF ~wb.readable THEN 0
    ELSE IF rep = "budget_summary" THEN NamedSheet(wb.sheets, N_BudgetSummary, 1)
    ELSE FindSheet(wb.sheets, rep, 1)

(* The rows left by dropna(how="all") *)
HasRows(sh) ==
    \E i \in 1..Len(sh.grid) :
        ~(IsNa(sh.grid[i].sec) /\ IsNa(sh.grid[i].acc) /\ AllNa(sh.grid[i].vals))

(* A sheet without the Account column: df['Account'] raises KeyError, the    *)
(* Budget Variance report raises ValueError (no account column), the Budget  *)
(* Summary loop raises KeyError at its first row                             *)
NoAccountColumn(rep, sh) ==
    IF rep = "budget_variance" THEN Raises("ValueError")
    ELSE IF rep = "budget_summary" /\ ~HasRows(sh) THEN Raises("ValueError")
    ELSE Raises("KeyError")

TransformSheet(rep, sh, drop, melt_to_long) ==
    IF rep = "profit_loss_vs_py"
    THEN transform_profit_and_loss_vs_py(sh.grid, sh.columns, drop, melt_to_long)
    ELSE IF rep = "profit_loss"
    THEN transform_profit_and_loss(sh.grid, sh.columns, drop, melt_to_long)
    ELSE IF rep = "balance_sheet"
    THEN transform_balance_sheet(sh.grid, sh.columns, drop, melt_to_long)
    ELSE IF rep = "budget_variance"
    THEN transform_budget_variance_report(sh.grid, sh.columns, drop, melt_to_long)
    ELSE transform_budget_summary(sh.grid, sh.columns, drop, melt_to_long)

(* A transformer called on the file: open, find the sheet, read, transform.  *)
(* "SheetNotFound" is the ValueError whose message says no sheet was found   *)
(* (raised by the lookup, or by read_excel for the Budget Summary).          *)
TransformFile(rep, wb, drop, melt_to_long) ==
    IF ~wb.readable THEN Raises("FileError")
    ELSE IF SheetFor(rep, wb) = 0 THEN Raises("SheetNotFound")
    ELSE LET sh == wb.sheets[SheetFor(rep, wb)] IN
         IF ~sh.has_account THEN NoAccountColumn(rep, sh)
         ELSE TransformSheet(rep, sh, drop, melt_to_long)

(* The *_df = None of an except branch: the message is printed, not kept *)
PyNone == [st |-> "None", err |-> "", cols |-> <<>>, rows |-> <<>>]

(* What process_management_report has handed to its caller: nothing yet,    *)
(* the dictionary (its values in the order of the keys), or an error         *)
NoBundle == [st |-> "none", err |-> "", entries |-> <<>>]
ReturnedBundle(entries) == [st |-> "returned", err |-> "", entries |-> entries]
RaisedBundle(e) == [st |-> "raised", err |-> e, entries |-> <<>>]

(* The drop_profit_rows argument process_management_report passes *)
DropArgument(rep) == rep \in {"profit_loss_vs_py", "profit_loss"}

(* The errors the transformers raise; all are subclasses of Exception *)
ExceptionClasses == {"FileError", "SheetNotFound", "ValueError", "KeyError", "AttributeError"}

Caught_value_errors(e) == e \in {"SheetNotFound", "ValueError"}

(* except Exception as e *)
Caught(e) == e \in ExceptionClasses

(* One try block of process_management_report: the table, or None *)
TryTransform(rep, wb) ==
    LET r == TransformFile(rep, wb, DropArgument(rep), FALSE) IN
    IF r.st = "ok" THEN r ELSE PyNone

InitImport ==
    /\ workbook \in Workbooks
    /\ dataset_name \in {"management_reports", "budget_summary"}
    /\ pc = 1
    /\ status = [r \in AllReports |-> "not_started"]
    /\ results = [r \in AllReports |-> NotCalled]
    /\ sheet_read = [r \in AllReports |-> 0]
    /\ bundle = NoBundle
    /\ report = "none" /\ drop_profit_rows = FALSE
    /\ columns = <<>> /\ grid = <<>> /\ out = <<>>
    /\ fn = "none" /\ arg = NaN /\ ret = Pending
    /\ NoUpload

(* process_management_report enters its next try block *)
StartReport ==
    /\ dataset_name = "management_reports"
    /\ pc \in 1..Len(ManagementReports)
    /\ status[ManagementReports[pc]] = "not_started"
    /\ status' = [status EXCEPT ![ManagementReports[pc]] = "running"]
    /\ UNCHANGED <<workbook, dataset_name, pc, results, sheet_read, bundle>>
    /\ UNCHANGED tvars
    /\ UNCHANGED uvars

(* Mutation: the first failure ends the call, the reports left are not run *)
FinishReport_abort_on_failure ==
    /\ dataset_name = "management_reports"
    /\ pc \in 1..Len(ManagementReports)
    /\ LET rep == ManagementReports[pc]
           r == TryTransform(rep, workbook)
       IN  /\ status[rep] = "running"
           /\ results' = [results EXCEPT ![rep] = r]
           /\ status' = [status EXCEPT
                            ![rep] = IF r.st = "ok" THEN "succeeded" ELSE "failed"]
           /\ sheet_read' = [sheet_read EXCEPT ![rep] = SheetFor(rep, workbook)]
           /\ pc' = IF r.st = "ok" THEN pc + 1 ELSE Len(ManagementReports) + 1
    /\ UNCHANGED <<workbook, dataset_name, bundle>>
    /\ UNCHANGED tvars
    /\ UNCHANGED uvars

(* The transformer of the try block returns or raises; the local is set.     *)
(* An error the except clause does not catch leaves the function.            *)
FinishReport ==
    /\ dataset_name = "management_reports"
    /\ pc \in 1..Len(ManagementReports)
    /\ status[ManagementReports[pc]] = "running"
    /\ LET rep == ManagementReports[pc]
           raw == TransformFile(rep, workbook, DropArgument(rep), FALSE)
           uncaught == raw.st = "raised" /\ ~Caught(raw.err)
       IN  /\ status' = [status EXCEPT
                            ![rep] = IF raw.st = "ok" THEN "succeeded" ELSE "failed"]
           /\ sheet_read' = [sheet_read EXCEPT ![rep] = SheetFor(rep, workbook)]
           /\ results' = IF uncaught THEN results
                         ELSE [results EXCEPT ![rep] = TryTransform(rep, workbook)]
           /\ bundle' = IF uncaught THEN RaisedBundle(raw.err) ELSE bundle
           /\ pc' = IF uncaught THEN Len(ManagementReports) + 2 ELSE pc + 1
    /\ UNCHANGED <<workbook, dataset_name>>
    /\ UNCHANGED tvars
    /\ UNCHANGED uvars

(* Mutation: the dictionary is returned as soon as one report is done *)
ReturnBundle_early ==
    /\ dataset_name = "management_reports"
    /\ pc \in 2..(Len(ManagementReports) + 1)
    /\ \A i \in 1..Len(ManagementReports) : status[ManagementReports[i]] # "running"
    /\ bundle' = ReturnedBundle(
           [i \in 1..Len(ManagementReports) |-> results[ManagementReports[i]]])
    /\ pc' = Len(ManagementReports) + 2
    /\ UNCHANGED <<workbook, dataset_name, status, results, sheet_read>>
    /\ UNCHANGED tvars
    /\ UNCHANGED uvars

(* return {...} *)
ReturnBundle ==
    /\ dataset_name = "management_reports"
    /\ pc = Len(ManagementReports) + 1
    /\ bundle' = ReturnedBundle(
           [i \in 1..Len(ManagementReports) |-> results[ManagementReports[i]]])
    /\ pc' = pc + 1
    /\ UNCHANGED <<workbook, dataset_name, status, results, sheet_read>>
    /\ UNCHANGED tvars
    /\ UNCHANGED uvars

(* import_upload, dataset budget_summary: transform_budget_summary with its  *)
(* default flags (drop_profit_rows=True, melt_to_long=True)                  *)
ImportBudgetSummary ==
    /\ dataset_name = "budget_summary"
    /\ status["budget_summary"] = "not_started"
    /\ LET r == TransformFile("budget_summary", workbook, TRUE, TRUE) IN
       /\ results' = [results EXCEPT !["budget_summary"] = r]
       /\ status' = [status EXCEPT
                        !["budget_summary"] = IF r.st = "ok" THEN "succeeded"
                                              ELSE "failed"]
    /\ sheet_read' = [sheet_read EXCEPT
                         !["budget_summary"] = SheetFor("budget_summary", workbook)]
    /\ UNCHANGED <<workbook, dataset_name, pc, bundle>>
    /\ UNCHANGED tvars
    /\ UNCHANGED uvars

NextImport == StartReport \/ FinishReport \/ ReturnBundle \/ ImportBudgetSummary

SpecImport == InitImport /\ [][NextImport]_vars

----------------------------------------------------------------------------
(* Properties of the transformers' outputs *)

Wide == out[FALSE]
Long == out[TRUE]

WideReturned == Wide.st = "ok"
LongReturned == Long.st = "ok"

(* The rows of the outputs returned so far, wide and long alike *)
OutputRows ==
    UNION { { out[m].rows[i] : i \in 1..Len(out[m].rows) } : m \in BOOLEAN }

(* A label that, trimmed and lower-cased, starts with 'total' *)
IsTotalLabel(c) == c.k = "str" /\ StartsWith(Lower(Strip(c.s)), <<W("total")>>)

(* A label that contains 'gross profit' or 'net profit', in any letter case *)
IsProfitLabel(c) ==
    /\ c.k = "str"
    /\ \/ Contains(Lower(c.s), Lower(GrossProfit))
       \/ Contains(Lower(c.s), Lower(NetProfit))

(* A cell that is non-null and numeric *)
IsNumericCell(c) == NotNa(ToNumeric(c))

Triple(r) == <<r.sec, r.sub, r.acc>>
WideTriples == { Triple(Wide.rows[i]) : i \in 1..Len(Wide.rows) }
LongTriples == { Triple(Long.rows[i]) : i \in 1..Len(Long.rows) }

PeriodMelting == {"profit_loss", "profit_loss_vs_py", "balance_sheet", "budget_summary"}

(* C1: no row of any transformer's wide or long output has an account whose  *)
(* trimmed label starts with 'total' in any letter case, whatever follows    *)
(* the word and whatever the row's value cells hold.                         *)
C1_NoTotalAccount == \A r \in OutputRows : ~IsTotalLabel(r.acc)

(* C2: with drop_profit_rows=True no output row of any transformer, wide or  *)
(* long, has a label containing 'gross profit' or 'net profit' in any letter *)
(* case.                                                                     *)
C2_NoProfitRowWhenDropped ==
    drop_profit_rows => \A r \in OutputRows : ~IsProfitLabel(r.acc)

(* C3: with drop_profit_rows=False every output row whose account is a       *)
(* Gross Profit / Net Profit line has its section, and its subsection where  *)
(* the layout has one, equal to its own account label.                       *)
C3_ProfitRowOwnSection ==
    ~drop_profit_rows =>
        \A r \in OutputRows :
            IsProfitLabel(r.acc) => r.sec = r.acc /\ r.sub \in {NoCol, r.acc}

(* C4: the number of rows of the long output equals the number of (wide      *)
(* output row, value column) pairs whose cell is non-null and numeric, a     *)
(* zero cell included.                                                       *)
C4_FactCount ==
    WideReturned /\ LongReturned =>
        Len(Long.rows) =
            Cardinality({ p \in (1..Len(Wide.rows)) \X (1..Len(Wide.cols)) :
                            IsNumericCell(Wide.rows[p[1]].vals[p[2]]) })

YieldsFact(c) ==
    /\ IsNumericCell(c)
    /\ report = "profit_loss_vs_py" => ToNumeric(c) # NumCell(0)

C6_AmountNumeric ==
    LongReturned => \A i \in 1..Len(Long.rows) : Long.rows[i].amount.k = "num"

(* A long output with facts, from a sheet that has a text cell which fails   *)
(* the coercion in a row the transformer keeps                               *)
C6_Witness ==
    /\ WideReturned /\ LongReturned
    /\ Long.rows # <<>>
    /\ \E i \in 1..Len(Wide.rows) : \E c \in 1..Len(Wide.cols) :
           Wide.rows[i].vals[c] = T_NotANumber

(* C7: in the period-melting transformers a value column whose header is no  *)
(* month-year label still yields its facts, with a null period_date, and the *)
(* call returns normally, also when no header is parsable.                   *)
C7_UnparsableHeaderNonFatal ==
    report \in PeriodMelting /\ WideReturned /\ Long.st # "none" =>
        /\ LongReturned
        /\ \A i \in 1..Len(Wide.rows) : \A c \in 1..Len(Wide.cols) :
               /\ parse_period_to_date(Wide.cols[c]) = None
               /\ YieldsFact(Wide.rows[i].vals[c])
               => \E k \in 1..Len(Long.rows) :
                      /\ Long.rows[k].col = c
                      /\ Triple(Long.rows[k]) = Triple(Wide.rows[i])
                      /\ Long.rows[k].period_date = None

(* C8: no output row of any transformer is without both a section and a      *)
(* subsection.                                                               *)
C8_SectionOrSubsection ==
    \A r \in OutputRows : ~(IsNa(r.sec) /\ r.sub \in {NaN, NoCol})

----------------------------------------------------------------------------
(* Calls of the period parsers on drawn inputs *)

MonthWordPool ==
    { "Jan", "Feb", "Mar", "Apr", "May", "Jun", "Jul", "Aug", "Sep", "Oct", "Nov",
      "Dec", "January", "February", "March", "April", "June", "July", "August",
      "September", "October", "November", "December",
      "DECEMBER", "mar", "Sept", "Foo" }

YearPool ==
    { <<2, 0, 2, 5>>, <<2, 0, 2, 4>>, <<0, 0, 0, 0>>, <<0, 0, 0, 1>>, <<9, 9, 9, 9>>,
      <<2, 0, 2>>, <<2, 0, 2, 5, 5>> }

PeriodInputs ==
    { NaN, NumCell(2025), StrCell(<<>>), StrCell(<<W("Jan")>>),
      StrCell(<<D(<<2, 0, 2, 5>>), S, W("Jan")>>),
      StrCell(<<D(<<1>>), S, W("Jan"), S, D(<<2, 0, 2, 5>>)>>) }
    \cup
    { StrCell(lead \o <<W(mw)>> \o sep \o <<D(yr)>> \o trail) :
        mw \in MonthWordPool, yr \in YearPool,
        lead \in {<<>>, <<S>>}, sep \in {<<>>, <<S>>, <<S, S>>},
        trail \in {<<>>, <<S>>, <<P(".")>>} }

BannerPrefixes ==
    { <<>>,
      <<D(<<5>>), S, W("Jan"), S, D(<<2, 0, 2, 4>>), S>>,
      <<D(<<9, 9>>), S, W("Foo"), S, D(<<2, 0, 2, 4>>), S>> }

BannerPhrases ==
    { <<>>,
      <<W("For"), S, W("the"), S, W("month"), S, W("ended"), S>>,
      <<W("FOR"), S, W("THE"), S, W("PERIOD"), S, W("ENDED"), S>>,
      <<W("For"), S, W("the"), S, W("month"), S, W("ending"), S>>,
      <<W("For"), S, S, W("the"), S, W("month"), S, W("ended"), S>> }

BannerDays == { <<3, 1>>, <<5>>, <<0, 5>>, <<0>>, <<1, 3, 1>>, <<2, 9>>, <<3, 0>> }

BannerMonths == { "December", "Dec", "DECEMBER", "February", "Feb", "Sept", "of" }

BannerInputs ==
    { NaN, NumCell(31), StrCell(<<W("Some"), S, W("unrelated"), S, W("text")>>),
      StrCell(<<W("For"), S, W("the"), S, W("month"), S, W("ended")>>) }
    \cup
    { StrCell(pre \o ph \o <<D(dy)>> \o sep \o <<W(mw)>> \o <<S>> \o <<D(yr)>>) :
        pre \in BannerPrefixes, ph \in BannerPhrases, dy \in BannerDays,
        sep \in {<<>>, <<S>>, <<S, S>>}, mw \in BannerMonths,
        yr \in YearPool \ {<<0, 0, 0, 1>>, <<9, 9, 9, 9>>} }

InitPeriod ==
    /\ \/ fn = "parse_period_to_date" /\ arg \in PeriodInputs
       \/ fn = "parse_report_period" /\ arg \in BannerInputs
    /\ ret = Pending
    /\ report = "none" /\ drop_profit_rows = FALSE
    /\ columns = <<>> /\ grid = <<>> /\ out = <<>>
    /\ NoImport
    /\ NoUpload

CallParsePeriodToDate ==
    /\ fn = "parse_period_to_date"
    /\ ret = Pending
    /\ ret' = parse_period_to_date(arg)
    /\ UNCHANGED <<fn, arg, report, drop_profit_rows, columns, grid, out>>
    /\ UNCHANGED bvars
    /\ UNCHANGED uvars

CallParseReportPeriod ==
    /\ fn = "parse_report_period"
    /\ ret = Pending
    /\ ret' = parse_report_period(arg)
    /\ UNCHANGED <<fn, arg, report, drop_profit_rows, columns, grid, out>>
    /\ UNCHANGED bvars
    /\ UNCHANGED uvars

NextPeriod == CallParsePeriodToDate \/ CallParseReportPeriod

SpecPeriod == InitPeriod /\ [][NextPeriod]_vars

----------------------------------------------------------------------------
(* C9 *)

MonthNameNumbers ==
    { <<"jan", 1>>, <<"january", 1>>, <<"feb", 2>>, <<"february", 2>>,
      <<"mar", 3>>, <<"march", 3>>, <<"apr", 4>>, <<"april", 4>>, <<"may", 5>>,
      <<"jun", 6>>, <<"june", 6>>, <<"jul", 7>>, <<"july", 7>>,
      <<"aug", 8>>, <<"august", 8>>, <<"sep", 9>>, <<"september", 9>>,
      <<"oct", 10>>, <<"october", 10>>, <<"nov", 11>>, <<"november", 11>>,
      <<"dec", 12>>, <<"december", 12>> }

IsMonthName(w) == \E p \in MonthNameNumbers : p[1] = LowerWord(w)
MonthNumber(w) == (CHOOSE p \in MonthNameNumbers : p[1] = LowerWord(w))[2]

(* c is a month name, whitespace, a 4-digit year, with whitespace around *)
IsMonthYearLabel(c) ==
    /\ c.k = "str"
    /\ \E a, b \in 1..Len(c.s) :
         /\ a < b
         /\ c.s[a].t = "w" /\ IsMonthName(c.s[a].w)
         /\ c.s[b].t = "d" /\ Len(c.s[b].d) = 4
         /\ \A i \in 1..Len(c.s) : i \notin {a, b} => c.s[i].t = "s"
         /\ b > a + 1

LabelMonth(c) == MonthNumber((CHOOSE tk \in {c.s[i] : i \in 1..Len(c.s)} : tk.t = "w").w)
LabelYear(c) ==
    DigitsValue((CHOOSE tk \in {c.s[i] : i \in 1..Len(c.s)} : tk.t = "d").d)

PeriodCalled == fn = "parse_period_to_date" /\ ret # Pending

\* C9 as stated: every month name followed by any 4-digit year gives the first
\* day of that month of that year, every other input gives null, nothing raises.
C9_AnyYear ==
    PeriodCalled =>
        IF IsMonthYearLabel(arg)
        THEN ret = Date(LabelYear(arg), LabelMonth(arg), 1)
        ELSE ret = None

\* C9 amended: a month name (abbreviated or full, any case, whitespace around
\* ignored) followed by a 4-digit year 0001..9999 gives the first day of that
\* month of that year; every other input, year 0000 included, gives null; no
\* input makes parse_period_to_date raise.
C9_MonthYearFirstDay ==
    PeriodCalled =>
        /\ ret # Raised
        /\ IF IsMonthYearLabel(arg) /\ LabelYear(arg) >= 1
           THEN ret = Date(LabelYear(arg), LabelMonth(arg), 1)
           ELSE ret = None

C9_Witness ==
    /\ PeriodCalled
    /\ IsMonthYearLabel(arg)
    /\ arg.s # Strip(arg.s)
    /\ arg.s[2].t = "w"
    /\ LowerWord(arg.s[2].w) = "september"
    /\ ret = Date(2025, 9, 1)

----------------------------------------------------------------------------
(* C10 *)

HasPhrase(c) ==
    \E i \in 1..Len(c.s) :
        /\ i + 6 <= Len(c.s)
        /\ LowerWord(c.s[i].w) = "for" /\ c.s[i + 1] = S
        /\ LowerWord(c.s[i + 2].w) = "the" /\ c.s[i + 3] = S
        /\ LowerWord(c.s[i + 4].w) \in {"month", "period"} /\ c.s[i + 5] = S
        /\ LowerWord(c.s[i + 6].w) = "ended"

(* A substring '<1-2 digit day> <letters> <4 digits>' begins in token a, has *)
(* its letters in token b and ends in token e                                *)
ShapedAt(s, a, b, e) ==
    /\ a < b /\ b < e
    /\ s[a].t = "d" /\ s[b].t = "w" /\ s[e].t = "d" /\ Len(s[e].d) >= 4
    /\ b - a >= 2 /\ e - b >= 2
    /\ \A i \in (a + 1)..(e - 1) : i # b => s[i].t = "s"

Shaped(s) ==
    LET ds == { i \in 1..Len(s) : s[i].t = "d" }
        ws == { i \in 1..Len(s) : s[i].t = "w" }
    IN  { x \in ds \X ws \X ds : ShapedAt(s, x[1], x[2], x[3]) }

FirstShaped(s) == CHOOSE x \in Shaped(s) : \A x2 \in Shaped(s) : x[1] <= x2[1]

(* The calendar date a shaped substring denotes, None when it denotes none *)
ShapedDate(s, x) ==
    LET dd == s[x[1]].d
        day == IF Len(dd) = 1 THEN dd[1] ELSE 10 * dd[Len(dd) - 1] + dd[Len(dd)]
        yd == s[x[3]].d
        year == 1000 * yd[1] + 100 * yd[2] + 10 * yd[3] + yd[4]
    IN  IF /\ IsMonthName(s[x[2]].w)
           /\ year >= 1
           /\ day >= 1
           /\ day <= DaysInMonth(year, MonthNumber(s[x[2]].w))
        THEN Date(year, MonthNumber(s[x[2]].w), day)
        ELSE None

ReportCalled == fn = "parse_report_period" /\ ret # Pending

\* C10: parse_report_period returns a date exactly when the text holds one of
\* the two phrases (any case) and the first substring shaped
\* '<1-2 digit day> <letters> <4 digits>' is a calendar date with a full or
\* abbreviated month name; the result is then that date; otherwise the result
\* is null (also when only a later substring would parse); it never raises.
C10_ReportPeriodExact ==
    ReportCalled =>
        /\ ret # Raised
        /\ IF arg.k = "str" /\ HasPhrase(arg) /\ Shaped(arg.s) # {}
           THEN ret = ShapedDate(arg.s, FirstShaped(arg.s))
           ELSE ret = None

\* the first shaped substring does not parse, a later one would: null
C10_Witness ==
    /\ ReportCalled
    /\ HasPhrase(arg)
    /\ Cardinality(Shaped(arg.s)) = 2
    /\ \E x \in Shaped(arg.s) : ShapedDate(arg.s, x) # None
    /\ ret = None

\* a date before the phrase, upper-case phrase: the first date is returned
C10_WitnessDate ==
    /\ ReportCalled
    /\ arg.k = "str" /\ Len(arg.s) > 1 /\ arg.s[1] = D(<<5>>)
    /\ Contains(arg.s, <<W("PERIOD"), S, W("ENDED")>>)
    /\ ret = Date(2024, 1, 5)

----------------------------------------------------------------------------
(* Properties of the sheet lookup and of process_management_report *)

Terminal(rep) == status[rep] \in {"succeeded", "failed"}

(* The names a report's sheet goes by; for the Budget Summary the name its   *)
(* transformer asks for                                                      *)
ReportAliases(rep) ==
    IF rep = "budget_summary" THEN {Lower(N_BudgetSummary)} ELSE SheetAliases(rep)

AliasSheets(rep) ==
    { i \in 1..Len(workbook.sheets) :
        \E a \in ReportAliases(rep) : Contains(Lower(workbook.sheets[i].name), a) }

(* The first sheet in workbook order whose name contains an alias, 0 if none *)
FirstAliasSheet(rep) ==
    IF AliasSheets(rep) = {} THEN 0
    ELSE CHOOSE i \in AliasSheets(rep) : \A j \in AliasSheets(rep) : i <= j

(* C11: for every report, Budget Summary included, the sheet read is the     *)
(* first one in workbook order whose name contains one of the report's       *)
(* aliases in any letter case; when none does the report fails and no sheet  *)
(* is read.                                                                  *)
C11_FirstAliasSheetRead ==
    \A rep \in AllReports :
        Terminal(rep) =>
            /\ sheet_read[rep] = FirstAliasSheet(rep)
            /\ FirstAliasSheet(rep) = 0 => status[rep] = "failed"

IsManagement == dataset_name = "management_reports"

BundleReturned ==
    IsManagement /\ bundle.st = "returned" /\ pc = Len(ManagementReports) + 2

(* What a report's transformer alone yields on the workbook, called with the *)
(* flags process_management_report passes: its table, or a failure          *)
AloneOutcome(rep) ==
    LET r == TransformFile(rep, workbook, DropArgument(rep), FALSE) IN
    IF r.st = "ok" THEN r ELSE PyNone

(* C12: the outcome recorded for each report is the outcome of its           *)
(* transformer alone on the same workbook, whatever happened to the other    *)
(* reports, and every report is run.                                         *)
C12_FaultIsolation ==
    IsManagement =>
        /\ \A i \in 1..Len(ManagementReports) :
               Terminal(ManagementReports[i]) =>
                   results[ManagementReports[i]] = AloneOutcome(ManagementReports[i])
        /\ BundleReturned =>
               \A i \in 1..Len(ManagementReports) :
                   /\ Terminal(ManagementReports[i])
                   /\ bundle.entries[i] = AloneOutcome(ManagementReports[i])

(* The bundle is returned; an earlier report failed, a later one succeeded *)
C12_Witness ==
    /\ BundleReturned
    /\ \E i, j \in 1..Len(ManagementReports) :
           /\ i < j
           /\ status[ManagementReports[i]] = "failed"
           /\ status[ManagementReports[j]] = "succeeded"
           /\ bundle.entries[j].st = "ok" /\ bundle.entries[j].rows # <<>>

IsBundle(b) ==
    /\ b.st = "returned"
    /\ DOMAIN b.entries = 1..Len(ManagementReports)
    /\ \A i \in DOMAIN b.entries : b.entries[i].st \in {"ok", "None"}

(* A statement of the call is ready to run *)
CanStep ==
    \/ /\ pc \in 1..Len(ManagementReports)
       /\ status[ManagementReports[pc]] \in {"not_started", "running"}
    \/ pc = Len(ManagementReports) + 1

(* C13: process_management_report never raises and always returns a mapping *)
(* with the four keys, each holding the report's table or a failure marker:  *)
(* no error leaves the call, the call is never stuck before its return, and  *)
(* what it returns has the four entries.                                     *)
C13_AlwaysReturnsBundle ==
    IsManagement =>
        /\ bundle.st # "none" => BundleReturned /\ IsBundle(bundle)
        /\ ~BundleReturned => CanStep

(* The call returned for a file that cannot be opened *)
C13_Witness ==
    /\ BundleReturned
    /\ ~workbook.readable
    /\ IsBundle(bundle)

(* C14: the bundle entry of every failed report is a failure marker that     *)
(* carries the message of the failure.                                       *)
C14_FailureMessageKept ==
    BundleReturned =>
        \A i \in 1..Len(ManagementReports) :
            status[ManagementReports[i]] = "failed" =>
                bundle.entries[i].st # "ok" /\ bundle.entries[i].err # ""

Position(rep) == CHOOSE i \in 1..Len(ManagementReports) : ManagementReports[i] = rep

ManagementSet == { ManagementReports[i] : i \in 1..Len(ManagementReports) }

(* One step of the call, as the sequencing allows it *)
SequencedStep ==
    /\ \A rep \in ManagementSet :
           status'[rep] # status[rep] =>
               \/ /\ status[rep] = "not_started" /\ status'[rep] = "running"
                  /\ \A r2 \in ManagementSet :
                         /\ Position(r2) < Position(rep) => Terminal(r2)
                         /\ Position(r2) > Position(rep) => status[r2] = "not_started"
               \/ /\ status[rep] = "running"
                  /\ status'[rep] \in {"succeeded", "failed"}
    /\ \A rep \in ManagementSet :
           results'[rep] # results[rep] =>
               /\ status[rep] = "running" /\ status'[rep] \in {"succeeded", "failed"}
               /\ results[rep] = NotCalled
    /\ bundle' # bundle =>
           /\ bundle = NoBundle
           /\ \A rep \in ManagementSet : Terminal(rep) /\ status'[rep] = status[rep]

(* C17: in one call each of the four reports goes not_started -> running ->  *)
(* succeeded or failed once, in the order P&L vs PY, Profit and Loss,        *)
(* Balance Sheet, Budget Variance; none starts before the previous one is    *)
(* terminal, no entry is written twice, none is retried, and the call        *)
(* returns only after all four are terminal.                                 *)
C17_Sequencing == [][IsManagement => SequencedStep]_vars

(* The call has returned after a failure of the first report and a success   *)
(* of the last                                                               *)
C17_Witness ==
    /\ BundleReturned
    /\ status["profit_loss_vs_py"] = "failed"
    /\ status["budget_variance"] = "succeeded"
    /\ \A rep \in ManagementSet : Terminal(rep)

----------------------------------------------------------------------------
(* Properties of the reconstruction, row by row *)

(* The text of a label cell, trimmed *)
LabelText(c) == Strip(AsStr(c))

HasLabel(r) == NotNa(r.acc) /\ LabelText(r.acc) # <<>>

(* A label-only row of a sheet with one label column *)
IsHeaderRow(r) == HasLabel(r) /\ AllNa(r.vals)

(* A row labelled 'Total ...': the word, then more text *)
IsTotalEtcRow(r) ==
    /\ HasLabel(r)
    /\ StartsWith(Lower(LabelText(r.acc)), <<W("total")>>)
    /\ Len(LabelText(r.acc)) > 1

(* A data row that is neither a total row nor a Gross/Net Profit line *)
IsDataRow(r) ==
    HasLabel(r) /\ ~AllNa(r.vals) /\ ~IsTotalLabel(r.acc) /\ ~IsProfitLabel(r.acc)

(* A sheet with one label column and month-year value columns: a header row, *)
(* data rows, a 'Total ...' row                                              *)
HeaderDataTotal ==
    /\ report = "budget_summary"
    /\ \A c \in 1..Len(columns) : IsMonthYearLabel(columns[c])
    /\ Len(grid) >= 3
    /\ IsHeaderRow(grid[1])
    /\ IsTotalEtcRow(grid[Len(grid)])
    /\ \A i \in 2..(Len(grid) - 1) : IsDataRow(grid[i])

(* The (data row, value column) pairs with a numeric cell *)
DataCells ==
    { p \in (2..(Len(grid) - 1)) \X (1..Len(columns)) :
        IsNumericCell(grid[p[1]].vals[p[2]]) }

(* The fact of one such cell; sub is the subsection it is expected to have *)
FactOf(p, sub) ==
    [sec |-> StrCell(LabelText(grid[1].acc)),
     sub |-> sub,
     acc |-> StrCell(LabelText(grid[p[1]].acc)),
     col |-> p[2],
     amount |-> ToNumeric(grid[p[1]].vals[p[2]]),
     period_date |-> Date(LabelYear(columns[p[2]]), LabelMonth(columns[p[2]]), 1)]

LongFacts == { Long.rows[i] : i \in 1..Len(Long.rows) }

C16_NeverEmptyTable ==
    report = "budget_summary" =>
        \A m \in BOOLEAN : out[m].st = "ok" => out[m].rows # <<>>

IsSectionAccount == report \in SectionAccountReports

(* The cell that names a section: the Section column where the sheet has    *)
(* one, the label column otherwise                                           *)
SectionCell(r) == IF IsSectionAccount THEN r.sec ELSE r.acc

(* A sheet row with a label and no value: a section header *)
SheetHeader(r) ==
    /\ NotNa(SectionCell(r)) /\ LabelText(SectionCell(r)) # <<>>
    /\ IsSectionAccount => IsNa(r.acc)
    /\ AllNa(r.vals)
    /\ ~IsTotalLabel(SectionCell(r))

SheetTotal(r) == IsTotalLabel(r.sec) \/ IsTotalLabel(r.acc)

(* A sheet row with an account label and at least one value *)
SheetData(r) ==
    /\ IsNa(r.sec)
    /\ HasLabel(r)
    /\ ~AllNa(r.vals)
    /\ ~IsTotalLabel(r.acc)

(* No value column of the sheet is dropped from the output *)
AllColumnsKept == WideReturned /\ Len(Wide.cols) = Len(columns)

(* C18: a row with a non-empty label and all value columns empty never       *)
(* appears in the output, and every data row that follows it, up to the next *)
(* section header or total row, is output with section equal to that         *)
(* header's label.                                                           *)
C18_SectionHeaderRule ==
    AllColumnsKept =>
        /\ \A k \in 1..Len(Wide.rows) :
               ~(NotNa(Wide.rows[k].acc) /\ AllNa(Wide.rows[k].vals))
        /\ \A i, j \in 1..Len(grid) :
               /\ i < j
               /\ SheetHeader(grid[i])
               /\ \A k \in (i + 1)..j : SheetData(grid[k])
               /\ ~IsProfitLabel(grid[j].acc)
               => \E k \in 1..Len(Wide.rows) :
                      /\ Wide.rows[k].acc = StrCell(LabelText(grid[j].acc))
                      /\ Wide.rows[k].sec = StrCell(LabelText(SectionCell(grid[i])))

(* C19: a data row that follows a total row with no section header in        *)
(* between is not given the section of the group the total row summarized.   *)
C19_TotalRowEndsGroup ==
    \A i, k, j \in 1..Len(grid) :
        /\ i < k /\ k < j
        /\ SheetHeader(grid[i])
        /\ \A n \in (i + 1)..(k - 1) : SheetData(grid[n])
        /\ SheetTotal(grid[k])
        /\ \A n \in (k + 1)..j : SheetData(grid[n])
        /\ \A n \in 1..Len(grid) : n # j => grid[n].acc # grid[j].acc
        => \A r \in OutputRows :
               r.acc = StrCell(LabelText(grid[j].acc))
                   => r.sec # StrCell(LabelText(SectionCell(grid[i])))

(* ------------------------------------------------------------------------ *)
(* Sheets of several blocks: a Section+Account sheet long enough to hold two *)
(* section headers, a subsection header and a data row                       *)
(* ------------------------------------------------------------------------ *)

BlockLen == 4

BlockRows ==
    { Row(L_Revenue, NaN, NaN, NaN),
      Row(L_Expenses, NaN, NaN, NaN),
      Row(NaN, L_Rent, NaN, NaN),
      Row(NaN, L_Sales, Num(5), Num(0)),
      Row(NaN, L_NetProfit, Num(5), NaN) }

InitBlocks ==
    /\ report \in SectionAccountReports
    /\ columns = <<H_Jan2025, H_Variance>>
    /\ grid \in UNION { [1..n -> BlockRows] : n \in 1..BlockLen }
    /\ drop_profit_rows \in BOOLEAN
    /\ out = [m \in BOOLEAN |-> NotCalled]
    /\ fn = "none" /\ arg = NaN /\ ret = Pending
    /\ NoImport
    /\ NoUpload

NextBlocks ==
    \/ CallProfitAndLossVsPy
    \/ CallProfitAndLoss
    \/ CallBalanceSheet

SpecBlocks == InitBlocks /\ [][NextBlocks]_vars

(* A sheet row with an account label and no value: a subsection header *)
SheetSubsectionHeader(r) == IsNa(r.sec) /\ HasLabel(r) /\ AllNa(r.vals)

(* The latest row at or before row j that satisfies Is; 0 when there is none *)
LatestRow(Is(_), from, j) ==
    LET found == { i \in from..j : Is(grid[i]) }
    IN  IF found = {} THEN 0 ELSE CHOOSE i \in found : \A i2 \in found : i2 <= i

HasSection(r) == NotNa(r.sec)

(* The subsection the rule gives to the data row j *)
RuleSubsection(j) ==
    LET h == LatestRow(HasSection, 1, j)
        s == LatestRow(SheetSubsectionHeader, h + 1, j)
    IN  IF s = 0 THEN StrCell(LabelText(grid[h].sec)) ELSE grid[s].acc

(* C20: in the Section+Account layouts every output data row's subsection is *)
(* the Account text of the latest subsection header after the row's own      *)
(* section header and before the row, or the row's section when there is     *)
(* none; it is never inherited from an earlier block of the same section.    *)
C20_SubsectionRule ==
    IsSectionAccount /\ (\A n \in 1..Len(grid) : ~SheetTotal(grid[n])) =>
        \A j \in 1..Len(grid) :
            /\ SheetData(grid[j])
            /\ ~IsProfitLabel(grid[j].acc)
            /\ \A n \in 1..Len(grid) : n # j => grid[n].acc # grid[j].acc
            /\ LatestRow(HasSection, 1, j) # 0
            /\ SheetHeader(grid[LatestRow(HasSection, 1, j)])
            => \A r \in OutputRows :
                   r.acc = StrCell(LabelText(grid[j].acc)) => r.sub = RuleSubsection(j)

(* C21: in the wide output of every transformer no row has every value      *)
(* column empty: label-only rows are discarded wherever they stand in the    *)
(* grid, including before the first section header.                          *)
C21_NoLabelOnlyRow ==
    AllColumnsKept =>
        \A k \in 1..Len(Wide.rows) : ~AllNa(Wide.rows[k].vals)

(* ------------------------------------------------------------------------ *)
(* The report period of the Budget Variance sheet                            *)
(* ------------------------------------------------------------------------ *)

(* read_excel(..., nrows=10, header=None) and read_excel(..., skiprows=4, header=0) *)
nrows == 10
skiprows == 4

(* pd.NaT *)
NaT == [k |-> "NaT", y |-> 0, m |-> 0, d |-> 0]

(* Mutation: the whole sheet is scanned *)
header_df_all(rows) == rows

(* The rows the banner is searched in *)
header_df(rows) == SubSeq(rows, 1, IF Len(rows) < nrows THEN Len(rows) ELSE nrows)

(* for cell in row: the first string cell parse_report_period accepts *)
RECURSIVE ScanCells(_, _)
ScanCells(row, j) ==
    IF j > Len(row) THEN None
    ELSE IF row[j].k = "str" /\ parse_report_period(row[j]) # None
         THEN parse_report_period(row[j])
         ELSE ScanCells(row, j + 1)

(* for _, row in header_df.iterrows(): stop at the first row that gave a date *)
RECURSIVE ScanRows(_, _)
ScanRows(df, i) ==
    IF i > Len(df) THEN None
    ELSE IF ScanCells(df[i], 1) # None THEN ScanCells(df[i], 1)
         ELSE ScanRows(df, i + 1)

(* Step 1: Extract report period *)
report_period(rows) ==
    LET found == ScanRows(header_df(rows), 1)
    IN  IF found = None THEN NaT ELSE found

B_Title == Txt(<<W("Budget"), S, W("Variance")>>)
B_December ==
    Txt(<<W("For"), S, W("the"), S, W("month"), S, W("ended"), S,
          D(<<3, 1>>), S, W("December"), S, D(<<2, 0, 2, 5>>)>>)
B_February ==
    Txt(<<W("FOR"), S, W("THE"), S, W("PERIOD"), S, W("ENDED"), S,
          D(<<5>>), S, W("Feb"), S, D(<<2, 0, 2, 4>>)>>)
B_NoMonth ==
    Txt(<<W("For"), S, W("the"), S, W("month"), S, W("ended"), S,
          D(<<3, 1>>), S, W("of"), S, D(<<2, 0, 2, 5>>)>>)

BannerRows ==
    { <<B_Title, NaN, NaN>>,
      <<B_NoMonth, B_February, NaN>>,
      <<B_February, B_December, NaN>>,
      <<Num(31), B_NoMonth, NaN>> }

(* Data rows of the sheet: ordinary rows, then possibly one whose label is   *)
(* a banner text                                                             *)
BannerGrids ==
    { [i \in 1..n |-> Row(NaN, L_Sales, Num(5), Num(0))] \o tail :
        n \in {0, skiprows, skiprows + 1},
        tail \in { <<>>, <<Row(NaN, B_December, Num(5), Num(0))>> } }

(* The sheet as header=None reads it: the rows above the header row, the     *)
(* header row, the data rows                                                 *)
RawRows(banner, cols, g) ==
    banner \o << <<Txt(<<W("Account")>>)>> \o cols >>
           \o [i \in 1..Len(g) |-> <<g[i].acc>> \o g[i].vals]

InitBanner ==
    /\ report = "budget_variance"
    /\ columns = <<H_Actual, H_Budget>>
    /\ grid \in BannerGrids
    /\ \E banner \in [1..skiprows -> BannerRows] :
           raw_rows = RawRows(banner, columns, grid)
    /\ drop_profit_rows = DropArgument(report)
    /\ out = [m \in BOOLEAN |-> NotCalled]
    /\ Period = [m \in BOOLEAN |-> <<>>]
    /\ fn = "none" /\ arg = NaN /\ ret = Pending
    /\ NoImport
    /\ view = "none" /\ import_record = <<>> /\ tmp_file = "none" /\ tmp_path = "None"

(* transform_budget_variance_report on the sheet: df['Period'] = report_period *)
CallBudgetVarianceSheet ==
    \E m \in BOOLEAN :
        /\ report = "budget_variance"
        /\ out[m] = NotCalled
        /\ LET df == transform_budget_variance_report(grid, columns, drop_profit_rows, m)
           IN  /\ out' = [out EXCEPT ![m] = df]
               /\ Period' = [Period EXCEPT
                                ![m] = [i \in 1..Len(df.rows) |-> report_period(raw_rows)]]
        /\ UNCHANGED <<report, drop_profit_rows, columns, grid, fn, arg, ret>>
        /\ UNCHANGED bvars
        /\ UNCHANGED <<raw_rows, view, import_record, tmp_file, tmp_path>>

NextBanner == CallBudgetVarianceSheet

SpecBanner == InitBanner /\ [][NextBanner]_vars

(* The cells of the first ten sheet rows, as <<row, column>> *)
TopCells ==
    { <<i, j>> \in (1..Len(raw_rows)) \X (1..3) : i <= 10 /\ j <= Len(raw_rows[i]) }

Accepted(p) ==
    raw_rows[p[1]][p[2]].k = "str" /\ parse_report_period(raw_rows[p[1]][p[2]]).k = "date"

RowMajorBefore(p, q) == p[1] < q[1] \/ (p[1] = q[1] /\ p[2] < q[2])

FirstAccepted(p) ==
    /\ p \in TopCells /\ Accepted(p)
    /\ \A q \in TopCells : RowMajorBefore(q, p) => ~Accepted(q)

(* C22: every row of the Budget Variance output carries the same Period, the *)
(* date parsed from the first cell, in row-major order over the first 10     *)
(* sheet rows, that parse_report_period accepts; without such a cell the     *)
(* Period is null on every row and the report still returns all its rows.    *)
C22_ReportPeriod ==
    \A m \in BOOLEAN :
        out[m] # NotCalled =>
            /\ out[m].st = "ok"
            /\ out[m] = transform_budget_variance_report(grid, columns, drop_profit_rows, m)
            /\ Len(Period[m]) = Len(out[m].rows)
            /\ \A k \in 1..Len(Period[m]) :
                   /\ \A p \in TopCells :
                          FirstAccepted(p) =>
                              Period[m][k] = parse_report_period(raw_rows[p[1]][p[2]])
                   /\ (\A p \in TopCells : ~Accepted(p)) => Period[m][k] = NaT

(* A banner stands in two cells with different dates; rows were returned *)
C22_Witness ==
    /\ out[TRUE].st = "ok" /\ out[TRUE].rows # <<>>
    /\ \E p, q \in TopCells :
           /\ FirstAccepted(p) /\ Accepted(q) /\ RowMajorBefore(p, q)
           /\ parse_report_period(raw_rows[q[1]][q[2]]) # Period[TRUE][1]
    /\ \E i \in 1..Len(raw_rows) : i > 10 /\ raw_rows[i][1] = B_December

(* ------------------------------------------------------------------------ *)
(* Budget Summary sheets with calculated rows in several letter cases        *)
(* ------------------------------------------------------------------------ *)

L_NetProfitLower == Txt(<<W("net"), S, W("profit")>>)
L_GrossProfitUpper == Txt(<<W("GROSS"), S, W("PROFIT")>>)

CalculatedRows ==
    { Row(NaN, L_Revenue, NaN, NaN),
      Row(NaN, L_Sales, Num(5), Num(0)),
      Row(NaN, L_Rent, Num(7), NaN),
      Row(NaN, L_NetProfit, Num(5), NaN),
      Row(NaN, L_NetProfitLower, Num(5), NaN),
      Row(NaN, L_GrossProfitUpper, Num(5), Num(5)) }

InitCalculated ==
    /\ report = "budget_summary"
    /\ columns = <<H_Jan2025, H_Feb2025>>
    /\ grid \in UNION { [1..n -> CalculatedRows] : n \in 1..MaxRows }
    /\ drop_profit_rows \in BOOLEAN
    /\ out = [m \in BOOLEAN |-> NotCalled]
    /\ fn = "none" /\ arg = NaN /\ ret = Pending
    /\ NoImport
    /\ NoUpload

NextCalculated == CallBudgetSummary

SpecCalculated == InitCalculated /\ [][NextCalculated]_vars

(* A data row whose account is Gross Profit or Net Profit, in any letter case *)
IsCalculatedRow(r) ==
    /\ HasLabel(r) /\ ~AllNa(r.vals)
    /\ Lower(LabelText(r.acc)) \in {Lower(GrossProfit), Lower(NetProfit)}

(* C23: in the Budget Summary, after a data row whose account is Gross       *)
(* Profit or Net Profit (in any letter case) the section is cleared: a data  *)
(* row that follows with no section header in between gets its own account   *)
(* as section.                                                               *)
C23_ResetAfterCalculatedRow ==
    report = "budget_summary" =>
        \A j \in 2..Len(grid) :
            /\ IsCalculatedRow(grid[j - 1])
            /\ SheetData(grid[j]) /\ ~IsProfitLabel(grid[j].acc)
            /\ \A n \in 1..Len(grid) : n # j => grid[n].acc # grid[j].acc
            => \A r \in OutputRows :
                   r.acc = StrCell(LabelText(grid[j].acc)) => r.sec = r.acc

HasSheetNamed(name) ==
    workbook.readable /\ \E i \in 1..Len(workbook.sheets) : workbook.sheets[i].name = name

(* C25: in a workbook with a plain 'Profit and Loss' sheet and a 'Profit and *)
(* Loss - vs PY' sheet, transform_profit_and_loss reads the plain sheet and   *)
(* transform_profit_and_loss_vs_py the vs-PY sheet, whatever the order of the *)
(* sheets; the two never read the same sheet.                                *)
C25_DistinctSheets ==
    /\ IsManagement
    /\ HasSheetNamed(N_ProfitAndLoss) /\ HasSheetNamed(N_ProfitAndLossVsPy)
    /\ Terminal("profit_loss") /\ Terminal("profit_loss_vs_py")
    => /\ workbook.sheets[sheet_read["profit_loss"]].name = N_ProfitAndLoss
       /\ workbook.sheets[sheet_read["profit_loss_vs_py"]].name = N_ProfitAndLossVsPy
       /\ sheet_read["profit_loss"] # sheet_read["profit_loss_vs_py"]

(* ------------------------------------------------------------------------ *)
(* import_upload: the POST of a file with an allowed extension, from the     *)
(* creation of the import record to the end of the request                   *)
(* ------------------------------------------------------------------------ *)

(* XeroDataImport.objects.create(..., file=file, status='processing') *)
CreatedRecord ==
    [status |-> "processing", processed_at |-> FALSE, error_message |-> "",
     rows_processed |-> 0, file |-> "stored"]

InitUpload ==
    /\ workbook \in Workbooks
    /\ dataset_name \in {"management_reports", "budget_summary", "unknown"}
    /\ pc = 1
    /\ status = [r \in AllReports |-> "not_started"]
    /\ results = [r \in AllReports |-> NotCalled]
    /\ sheet_read = [r \in AllReports |-> 0]
    /\ bundle = NoBundle
    /\ report = "none" /\ drop_profit_rows = FALSE
    /\ columns = <<>> /\ grid = <<>> /\ out = <<>>
    /\ fn = "none" /\ arg = NaN /\ ret = Pending
    /\ raw_rows = <<>> /\ Period = <<>>
    /\ view = "created"
    /\ import_record = CreatedRecord
    /\ tmp_file = "none" /\ tmp_path = "None"

(* with tempfile.NamedTemporaryFile(delete=False, suffix='.xlsx') as tmp_file *)
OpenTemporaryFile ==
    /\ view = "created"
    /\ tmp_file' = "exists"
    /\ view' = "copy"
    /\ UNCHANGED <<raw_rows, Period, import_record, tmp_path>>
    /\ UNCHANGED tvars
    /\ UNCHANGED bvars

(* for chunk in file.chunks(): tmp_file.write(chunk); tmp_path = tmp_file.name. *)
(* A read or write error leaves the with block before tmp_path is assigned.  *)
CopyChunks ==
    /\ view = "copy"
    /\ \/ tmp_path' = "set" /\ view' = "process"
       \/ tmp_path' = tmp_path /\ view' = "except:OSError"
    /\ UNCHANGED <<raw_rows, Period, import_record, tmp_file>>
    /\ UNCHANGED tvars
    /\ UNCHANGED bvars

(* The transformer call of the branch taken: transform_budget_summary or the  *)
(* steps of process_management_report                                        *)
Process ==
    /\ view = "process"
    /\ \/ StartReport
       \/ FinishReport
       \/ ReturnBundle
       \/ ImportBudgetSummary

(* total_rows += len(df) for the entries that are not None *)
(* Mutation: only the first report is counted *)
total_rows_first(entries) ==
    IF entries = <<>> THEN 0
    ELSE IF Head(entries).st = "ok" THEN Len(Head(entries).rows) ELSE 0

RECURSIVE total_rows(_)
total_rows(entries) ==
    IF entries = <<>> THEN 0
    ELSE (IF Head(entries).st = "ok" THEN Len(Head(entries).rows) ELSE 0)
         + total_rows(Tail(entries))

(* The error a view statement ends with *)
Failing(e) == "except:" \o e

(* The branch is done: rows_processed is set, or its exception is raised;    *)
(* else: raise ValueError(f"Unknown dataset type: {dataset_name}")           *)
Processed ==
    /\ view = "process"
    /\ \/ /\ dataset_name = "budget_summary"
          /\ status["budget_summary"] \in {"succeeded", "failed"}
          /\ LET df == results["budget_summary"] IN
             IF df.st = "ok"
             THEN /\ import_record' = [import_record EXCEPT !.rows_processed = Len(df.rows)]
                  /\ view' = "save"
             ELSE /\ import_record' = import_record
                  /\ view' = Failing(df.err)
       \/ /\ dataset_name = "management_reports"
          /\ bundle.st # "none"
          /\ IF bundle.st = "returned"
             THEN /\ import_record' =
                         [import_record EXCEPT !.rows_processed = total_rows(bundle.entries)]
                  /\ view' = "save"
             ELSE /\ import_record' = import_record
                  /\ view' = Failing(bundle.err)
       \/ /\ dataset_name \notin {"budget_summary", "management_reports"}
          /\ import_record' = import_record
          /\ view' = Failing("UnknownDataset")
    /\ UNCHANGED <<raw_rows, Period, tmp_file, tmp_path>>
    /\ UNCHANGED tvars
    /\ UNCHANGED bvars

(* import_record.status = 'completed'; processed_at = now; save() *)
SaveCompleted ==
    /\ view = "save"
    /\ import_record' = [import_record EXCEPT !.status = "completed", !.processed_at = TRUE]
    /\ view' = "message"
    /\ UNCHANGED <<raw_rows, Period, tmp_file, tmp_path>>
    /\ UNCHANGED tvars
    /\ UNCHANGED bvars

(* messages.success(request, ...), inside the try block *)
SuccessMessage ==
    /\ view = "message"
    /\ view' \in {"delete", Failing("MessageFailure")}
    /\ UNCHANGED <<raw_rows, Period, import_record, tmp_file, tmp_path>>
    /\ UNCHANGED tvars
    /\ UNCHANGED bvars

(* if import_record.file: import_record.file.delete(save=False), inside the  *)
(* try block: the storage deletes the file or raises                         *)
DeleteUploadedFile ==
    /\ view = "delete"
    /\ \/ /\ import_record' = [import_record EXCEPT !.file = "deleted"]
          /\ view' = "finally:redirect"
       \/ /\ import_record' = import_record
          /\ view' = Failing("DeleteError")
    /\ UNCHANGED <<raw_rows, Period, tmp_file, tmp_path>>
    /\ UNCHANGED tvars
    /\ UNCHANGED bvars

ViewErrors ==
    { Failing(e) : e \in ExceptionClasses \cup
                         {"OSError", "UnknownDataset", "MessageFailure", "DeleteError"} }

(* Mutation: the handler leaves the uploaded file in place *)
HandleException_keep_file ==
    /\ view \in ViewErrors
    /\ import_record' = [import_record EXCEPT
                            !.status = "failed",
                            !.error_message = SubSeq(view, 8, Len(view)),
                            !.processed_at = TRUE]
    /\ view' = "finally:render"
    /\ UNCHANGED <<raw_rows, Period, tmp_file, tmp_path>>
    /\ UNCHANGED tvars
    /\ UNCHANGED bvars

(* except Exception as e: status = 'failed', error_message = str(e),         *)
(* processed_at = now, save(); messages.error; the file is deleted and the   *)
(* form is rendered, or the deletion raises out of the handler               *)
HandleException ==
    /\ view \in ViewErrors
    /\ \E deleted \in BOOLEAN :
           /\ import_record' = [import_record EXCEPT
                                   !.status = "failed",
                                   !.error_message = SubSeq(view, 8, Len(view)),
                                   !.processed_at = TRUE,
                                   !.file = IF deleted THEN "deleted" ELSE @]
           /\ view' = IF deleted THEN "finally:render" ELSE "finally:raise"
    /\ UNCHANGED <<raw_rows, Period, tmp_file, tmp_path>>
    /\ UNCHANGED tvars
    /\ UNCHANGED bvars

(* finally: if tmp_path and os.path.exists(tmp_path): os.remove(tmp_path),   *)
(* PermissionError swallowed ("locked"); then the pending return or raise    *)
Finally ==
    /\ view \in {"finally:redirect", "finally:render", "finally:raise"}
    /\ IF tmp_path # "None" /\ tmp_file = "exists"
       THEN tmp_file' \in {"removed", "locked"}
       ELSE tmp_file' = tmp_file
    /\ view' = SubSeq(view, 9, Len(view))
    /\ UNCHANGED <<raw_rows, Period, import_record, tmp_path>>
    /\ UNCHANGED tvars
    /\ UNCHANGED bvars

NextUpload ==
    \/ OpenTemporaryFile
    \/ CopyChunks
    \/ Process
    \/ Processed
    \/ SaveCompleted
    \/ SuccessMessage
    \/ DeleteUploadedFile
    \/ HandleException
    \/ Finally

SpecUpload == InitUpload /\ [][NextUpload]_vars

(* The view has returned a response *)
ViewReturned == view \in {"redirect", "render"}

(* C24: whenever import_upload has created an import record, the uploaded    *)
(* file stored on it has been deleted by the time the view returns, on the   *)
(* success path and on the failure path alike.                               *)
C24_UploadedFileDeleted == ViewReturned => import_record.file = "deleted"

C24_Witness ==
    view = "render" /\ import_record.status = "failed" /\ import_record.file = "deleted"

Uploading == view # "none"

(* C26: 'completed' is absorbing: once the record is saved as 'completed',   *)
(* no later step of the request changes its status, not even a failure of    *)
(* the success message or of the deletion of the uploaded file.              *)
C26_CompletedAbsorbing ==
    [][Uploading /\ import_record.status = "completed"
           => import_record'.status = "completed"]_vars

(* C27: the record is created 'processing'; when the view returns it is      *)
(* 'completed' or 'failed' with processed_at set; the only transitions are   *)
(* processing -> completed and processing -> failed; a failed record carries *)
(* the error text; 'pending' is never stored.                                *)
C27_StatusLifecycle ==
    [][Uploading =>
          /\ view = "created" => import_record.status = "processing"
          /\ import_record'.status # import_record.status =>
                 /\ import_record.status = "processing"
                 /\ import_record'.status \in {"completed", "failed"}
          /\ import_record'.status = "failed" => import_record'.error_message # ""
          /\ import_record'.status # "pending"
          /\ view' \in {"redirect", "render"} =>
                 /\ import_record'.status \in {"completed", "failed"}
                 /\ import_record'.processed_at]_vars

(* The errors raised outside the call of process_management_report *)
OutsideErrors == {"OSError", "UnknownDataset", "MessageFailure", "DeleteError"}

RECURSIVE SucceededRows(_)
SucceededRows(i) ==
    IF i = 0 THEN 0
    ELSE (IF status[ManagementReports[i]] = "succeeded"
          THEN Len(results[ManagementReports[i]].rows) ELSE 0)
         + SucceededRows(i - 1)

(* C28: in a management_reports import the failure of any or all of the four *)
(* reports never makes the import 'failed': the record ends 'completed' with *)
(* rows_processed the sum of the row counts of the reports that succeeded;   *)
(* only an error outside the bundle call makes the import 'failed'.          *)
C28_ReportFailuresDoNotFailImport ==
    IsManagement /\ Uploading =>
        /\ import_record.status = "failed" => import_record.error_message \in OutsideErrors
        /\ import_record.status = "completed" =>
               import_record.rows_processed = SucceededRows(Len(ManagementReports))
        /\ ViewReturned /\ import_record.error_message = "" =>
               import_record.status = "completed"

C28_Witness ==
    /\ IsManagement /\ view = "redirect"
    /\ \E i \in 1..Len(ManagementReports) : status[ManagementReports[i]] = "failed"
    /\ import_record.status = "completed" /\ import_record.rows_processed > 0

(* C29: on every path through the processing of an uploaded file the         *)
(* temporary file is removed before the view returns, unless the removal     *)
(* itself fails with PermissionError.                                        *)
C29_TemporaryFileRemoved ==
    view \in {"redirect", "render", "raise"} /\ tmp_file # "none" =>
        tmp_file \in {"removed", "locked"}

(* C30: every row in the wide output of the Section+Account transformers    *)
(* has a non-empty account: a grid row with text in the Section column and   *)
(* at least one value but an empty Account cell does not reach the output    *)
(* as a row with a null account.                                             *)
C30_AccountNeverNull ==
    IsSectionAccount /\ WideReturned =>
        \A k \in 1..Len(Wide.rows) :
            NotNa(Wide.rows[k].acc) /\ Wide.rows[k].acc # StrCell(<<>>)

====
